---- MODULE Spec2Model ----
(***************************************************************************)
(* Null-hypothesis significance engine of ouroboros: the null generator    *)
(* (validation/nulling.py, validation/shuffling.py) and the Monte-Carlo    *)
(* drivers under scripts/ that load a field, compute the observed          *)
(* statistic, run N null evaluations in a worker pool and rank the         *)
(* observed value against the null ensemble.                               *)
(*                                                                         *)
(* The sphere is pixelised by the six axis directions +x,-x,+y,-y,+z,-z.   *)
(* The orthogonal matrices the generator can draw are the 48 signed        *)
(* permutation matrices, which map that pixel set onto itself, so pixel    *)
(* rotation is exact.  Statistic values are integers; NaN is a value that  *)
(* compares false with everything, as in IEEE arithmetic.                  *)
(***************************************************************************)
EXTENDS Naturals, Integers, Sequences, FiniteSets, TLC

(***************************************************************************)
(* Bounds of the model.                                                    *)
(***************************************************************************)
\* Samples per ensemble.  The drivers use 100..2000; every driver is run
\* with MaxSims samples here.
MaxSims == 3
\* The bit generator behind default_rng is a fixed but unknown function of
\* the seed; PrngKey ranges over 0..MaxKey such functions.
MaxKey == 2
\* Failures the environment may inject into worker evaluations of one run.
MaxFaults == 1
\* Values OS entropy can take when a generator is built without a seed.
MaxEntropy == 1

(***************************************************************************)
(* Values.                                                                 *)
(***************************************************************************)
\* IEEE not-a-number: np.var / np.mean of an empty selection.
NaN == 0 - 1
\* healpy's marker of an unobserved pixel, below every observed value.
UNSEEN == 0 - 9
\* Pixels are kept when they are greater than this (-1e20 in the source).
BadPixelCut == 0 - 5

\* a < b in floating point: false as soon as one side is NaN.
FLess(a, b) == a # NaN /\ b # NaN /\ a < b
FGreater(a, b) == a # NaN /\ b # NaN /\ a > b

(***************************************************************************)
(* Pixelised sphere.                                                       *)
(***************************************************************************)
NPix == 6
Pix == 1..NPix
\* hp.pix2vec of the model pixelisation.
PixVec == << <<1, 0, 0>>, <<0 - 1, 0, 0>>, <<0, 1, 0>>, <<0, 0 - 1, 0>>,
             <<0, 0, 1>>, <<0, 0, 0 - 1>> >>
Vec2Pix(v) == CHOOSE p \in Pix : PixVec[p] = v
\* Galactic latitude (deg) of each pixel: 90 - degrees(theta).
GalLatDeg == <<0, 0, 0, 0, 90, 0 - 90>>
\* Ecliptic latitude (deg) of each pixel after the G->E rotator.  The model
\* frame puts the ecliptic pole on +y so that the belt holds pixels on both
\* sides of the galactic cut, as the NSIDE=64 belt does.
EclLatDeg == <<0, 0, 90, 0 - 90, 0, 0>>
Abs(x) == IF x < 0 THEN 0 - x ELSE x

(***************************************************************************)
(* 3x3 matrices, as tuples of rows.                                        *)
(***************************************************************************)
Det(M) ==   M[1][1] * (M[2][2] * M[3][3] - M[2][3] * M[3][2])
          - M[1][2] * (M[2][1] * M[3][3] - M[2][3] * M[3][1])
          + M[1][3] * (M[2][1] * M[3][2] - M[2][2] * M[3][1])
Transpose(M) == [i \in 1..3 |-> [j \in 1..3 |-> M[j][i]]]
MatMul(A, B) ==
    [i \in 1..3 |-> [j \in 1..3 |->
        A[i][1] * B[1][j] + A[i][2] * B[2][j] + A[i][3] * B[3][j]]]
MatVec(M, v) ==
    [i \in 1..3 |-> M[i][1] * v[1] + M[i][2] * v[2] + M[i][3] * v[3]]
Identity3 == << <<1, 0, 0>>, <<0, 1, 0>>, <<0, 0, 1>> >>
IsOrthogonal(M) == MatMul(Transpose(M), M) = Identity3

\* The orthogonal group sample: signed permutation matrix number k, 0..47.
\* k % 6 selects the permutation, the three bits of k \div 6 the row signs.
PermSeq == << <<1, 2, 3>>, <<2, 3, 1>>, <<3, 1, 2>>,
              <<2, 1, 3>>, <<1, 3, 2>>, <<3, 2, 1>> >>
NOrtho == 48
Ortho(k) ==
    LET perm == PermSeq[(k % 6) + 1]
        bits == k \div 6
        sgn(i) == IF (bits \div (2 ^ (i - 1))) % 2 = 1 THEN 0 - 1 ELSE 1
    IN  [i \in 1..3 |-> [j \in 1..3 |-> IF j = perm[i] THEN sgn(i) ELSE 0]]

(***************************************************************************)
(* validation/nulling.py : NullGenerator                                   *)
(***************************************************************************)
\* np.random.default_rng(seed): a generator is its seed and the number of
\* variates drawn so far.
default_rng(seed) == [seed |-> seed, pos |-> 0]

\* scipy.stats.ortho_group.rvs(3, random_state=rng): a deterministic
\* function of the generator state, for the bit generator selected by key.
ortho_group_rvs(key, rng) ==
    Ortho((17 * key + 7 * rng.seed + 5 * rng.pos) % NOrtho)

\* R[:, 0] *= -1
FlipFirstColumn(R) ==
    [i \in 1..3 |-> [j \in 1..3 |-> IF j = 1 THEN 0 - R[i][j] ELSE R[i][j]]]

\* FixDeterminant without the correction for reflections.
FixDeterminantNoFlip(Q) == Q

\* NullGenerator._get_random_rotation, given the sampled matrix Q.
FixDeterminant(Q) == IF Det(Q) < 0 THEN FlipFirstColumn(Q) ELSE Q

\* NullGenerator._get_random_rotation: the rotation and the advanced
\* generator.
GetRandomRotation(key, rng) ==
    [R   |-> FixDeterminant(ortho_group_rvs(key, rng)),
     Q   |-> ortho_group_rvs(key, rng),
     rng |-> [rng EXCEPT !.pos = rng.pos + 1]]

\* hp.Rotator(rot=R).rotate_map_pixel(m): every output pixel takes the
\* value found at its inverse-rotated direction.
RotateMapPixel(m, R) ==
    [p \in Pix |-> m[Vec2Pix(MatVec(Transpose(R), PixVec[p]))]]

\* next(NullGenerator(m, seed).generate_nulls(n_sims=1)): the first null map.
FirstNull(key, m, seed) ==
    RotateMapPixel(m, GetRandomRotation(key, default_rng(seed)).R)

(***************************************************************************)
(* config.py and the constants of the engines and drivers.                 *)
(***************************************************************************)
NSIDE == 64
L_MIN == 2
L_MAX == 100
\* get_separation_vectors refuses catalogs above this size.
MaxObjects == 2000
\* Size of the mock quasar field run_quasar_pipeline generates.
MockObjects == 5000
\* "Evil" alignment threshold of run_mask_ladder / run_spectrum_check (deg).
THRESHOLD == 10
\* Fail-safe angle a catching worker returns (deg).
FallbackAngle == 90
\* Galactic cut of the variance workers: keep |b| > 40 deg.
GalCutDeg == 40
\* Half-width of the ecliptic belt: |b_ecl| < 20 deg.
BeltDeg == 20

Drivers == {"run_parity_pipeline", "run_geo_pipeline", "run_phase3_tomography",
            "run_harmonics_null", "run_axis_validity", "run_variance_pipeline",
            "run_jackknife", "run_quasar_pipeline", "run_mask_ladder",
            "run_spectrum_check"}

\* Drivers whose main(path=None) falls back to a generated mock input.
HasMock(d) == d \in {"run_parity_pipeline", "run_geo_pipeline",
                     "run_phase3_tomography", "run_quasar_pipeline"}

\* Drivers that build NullGenerator(original_map, seed) in the worker.
RotationDrivers == {"run_parity_pipeline", "run_geo_pipeline",
                    "run_phase3_tomography", "run_harmonics_null",
                    "run_axis_validity", "run_variance_pipeline",
                    "run_jackknife"}
\* Drivers whose worker synthesises a fresh Gaussian map from np.random.
SynfastDrivers == {"run_mask_ladder", "run_spectrum_check"}
\* Drivers that compare the ensemble with a fixed threshold instead of an
\* observed statistic.
ThresholdDrivers == SynfastDrivers

\* Latitude cuts of the mask ladder.
LadderCuts == {0, 10, 20, 30, 40}

\* seeds = [base + i for i in range(N)]: the base of each driver.
SeedBase(d, cut) ==
    CASE d = "run_axis_validity"  -> 3000
      [] d = "run_mask_ladder"    -> 10000 + cut * 10000
      [] d = "run_spectrum_check" -> 50000
      [] OTHER                    -> 2025

\* The sample count of each driver (100, 200, 500, 1000 or 2000 in the
\* source), scaled to the model bound.
NSims(d) == MaxSims

\* SeedList handing the same seed to every worker.
SeedListShared(base, n) == [i \in 1..n |-> base]

\* [base + i for i in range(n)]
SeedList(base, n) == [i \in 1..n |-> base + (i - 1)]

\* The direction of extremity each driver hard-codes in its count:
\* np.sum(nulls < real) or np.sum(nulls > real).
Direction(d) ==
    IF d \in {"run_quasar_pipeline", "run_jackknife"} THEN "greater" ELSE "less"

\* Drivers with a second verdict branch for p > 0.95.
HasInverse(d) == d \in {"run_variance_pipeline", "run_jackknife",
                        "run_quasar_pipeline"}

\* Workers that wrap the measurement (not the map generation) in
\* try/except and return the fail-safe angle.
WorkerCatches(d, stage) == d \in SynfastDrivers /\ stage = "measure"

(***************************************************************************)
(* The statistic each driver evaluates, as function name and parameters.   *)
(***************************************************************************)
Call(fn, grid, lmin, lmax, galcut, onEmpty) ==
    [fn |-> fn, grid |-> grid, lmin |-> lmin, lmax |-> lmax,
     galcut |-> galcut, onEmpty |-> onEmpty]
NoCall == Call("none", 0, 0, 0, 0, 0)

\* The statistic main evaluates on the loaded input.
RealCall(d) ==
    CASE d = "run_parity_pipeline"   -> Call("parity_scan_alignment", 8, L_MIN, L_MAX, 0, 0)
      [] d = "run_phase3_tomography" -> Call("parity_scan_alignment", 8, 2, 30, 0, 0)
      [] d = "run_geo_pipeline"      -> Call("dist_solar_spin", 0, 0, 0, 0, 0)
      [] d = "run_harmonics_null"    -> Call("angle_3_ecl", 0, 0, 0, 0, 0)
      [] d = "run_axis_validity"     -> Call("angle_23", 0, 0, 0, 0, 0)
      [] d = "run_variance_pipeline" -> Call("belt_variance", 0, 0, 0, 0, NaN)
      [] d = "run_jackknife"         -> Call("belt_variance", 0, 0, 0, GalCutDeg, 0)
      [] d = "run_quasar_pipeline"   -> Call("separation_alignment", 0, 0, 0, 0, 0)
      [] OTHER                       -> NoCall

\* The statistic the worker evaluates on each null input.
NullCall(d) ==
    CASE d = "run_parity_pipeline"   -> Call("parity_scan_alignment", 4, L_MIN, L_MAX, 0, 0)
      [] d = "run_phase3_tomography" -> Call("parity_scan_alignment", 4, 2, 30, 0, 0)
      [] d = "run_geo_pipeline"      -> Call("dist_solar_spin", 0, 0, 0, 0, 0)
      [] d = "run_harmonics_null"    -> Call("angle_3_ecl", 0, 0, 0, 0, 0)
      [] d = "run_axis_validity"     -> Call("angle_23", 0, 0, 0, 0, 0)
      [] d = "run_variance_pipeline" -> Call("belt_variance", 0, 0, 0, GalCutDeg, 0)
      [] d = "run_jackknife"         -> Call("belt_variance", 0, 0, 0, GalCutDeg, 0)
      [] d = "run_quasar_pipeline"   -> Call("separation_alignment", 0, 0, 0, 0, 0)
      [] OTHER                       -> Call("angle_23", 0, 0, 0, 0, 0)

(***************************************************************************)
(* Fields and the concrete variance statistic.                             *)
(***************************************************************************)
\* The fields a file or the mock generator can deliver.
FieldSeq == << <<2, 0, 1, 1, 0, 3>>,
               <<1, 1, 1, 1, 1, 1>>,
               <<0, 2, 1, UNSEEN, 2, 0>>,
               <<UNSEEN, UNSEEN, 1, 0, 4, 0>> >>
Fields == {FieldSeq[i] : i \in 1..Len(FieldSeq)}
ZeroField == [p \in Pix |-> 0]

RECURSIVE SumOver(_, _)
SumOver(S, m) ==
    IF S = {} THEN 0
    ELSE LET p == CHOOSE q \in S : TRUE IN m[p] + SumOver(S \ {p}, m)
RECURSIVE SumSqOver(_, _)
SumSqOver(S, m) ==
    IF S = {} THEN 0
    ELSE LET p == CHOOSE q \in S : TRUE IN m[p] * m[p] + SumSqOver(S \ {p}, m)

\* np.var of the values of m on the pixel set S, in units of 1/3600 so that
\* variances over 1..6 pixels are integers; NaN on an empty selection.
NpVar(S, m) ==
    IF S = {} THEN NaN
    ELSE LET n == Cardinality(S)
         IN  (n * SumSqOver(S, m) - SumOver(S, m) * SumOver(S, m))
                 * ((60 \div n) * (60 \div n))

\* _precompute_ecliptic_indices: np.where(np.abs(b_ecl) < 20)[0]
PrecomputeEclipticIndices == {p \in Pix : Abs(EclLatDeg[p]) < BeltDeg}

\* real_pixels[real_pixels > -1e20] of run_variance_pipeline.main
RealBeltVariance(m, belt) ==
    NpVar({p \in belt.idx : m[p] > BadPixelCut}, m)

\* The belt a process works on, read from its module globals g: the pixel
\* indices ECLIPTIC_INDICES and their galactic latitudes, which
\* worker_jackknife reads from GALACTIC_LATS and worker_variance computes
\* with hp.pix2ang(nside, ECLIPTIC_INDICES).
BeltOf(d, g) ==
    [idx |-> g.ECLIPTIC_INDICES.idx,
     lat |-> IF d = "run_jackknife" THEN g.GALACTIC_LATS.lat
             ELSE [p \in g.ECLIPTIC_INDICES.idx |-> GalLatDeg[p]]]

\* worker_variance / worker_jackknife after the rotation: galactic cut,
\* mask filter, 0.0 on an empty selection, np.var otherwise.
WorkerBeltVariance(m, belt) ==
    LET clean == {p \in belt.idx : Abs(belt.lat[p]) > GalCutDeg}
        valid == {p \in clean : m[p] > BadPixelCut}
    IN  IF valid = {} THEN 0 ELSE NpVar(valid, m)

\* generate_galactic_mask(nside, lat_cut), applied by random_map * mask.
ApplyMask(m, cut) ==
    [p \in Pix |-> IF cut # 0 /\ Abs(GalLatDeg[p]) < cut THEN 0 ELSE m[p]]

\* np.random.seed(seed); hp.synfast(cls, ...): a map that is a function of
\* the seed (and of the bit generator) only.
SynFast(key, seed) == FieldSeq[((key + seed) % Len(FieldSeq)) + 1]

\* Values the statistics that are not computed pixel by pixel here can
\* take: angles in degrees, or alignment scores in percent.
StatSample == {5, 90}

\* rng.uniform(0, 360) of an entropy-seeded generator.
SpinOffset(e) == 90 * (e + 1)

\* CountExtreme counting ties as extreme (<= and >=).
RECURSIVE CountExtremeTies(_, _, _)
CountExtremeTies(nulls, real, dir) ==
    IF nulls = << >> THEN 0
    ELSE (IF dir = "less"
          THEN (IF FLess(Head(nulls), real) \/ Head(nulls) = real THEN 1 ELSE 0)
          ELSE (IF FGreater(Head(nulls), real) \/ Head(nulls) = real THEN 1 ELSE 0))
         + CountExtremeTies(Tail(nulls), real, dir)

\* CountExtreme ranking as if the ensemble were sorted: it stops at the
\* first value that is not extreme.
RECURSIVE CountExtremePrefix(_, _, _)
CountExtremePrefix(nulls, real, dir) ==
    IF nulls = << >> THEN 0
    ELSE IF (dir = "less" /\ FLess(Head(nulls), real))
            \/ (dir # "less" /\ FGreater(Head(nulls), real))
         THEN 1 + CountExtremePrefix(Tail(nulls), real, dir)
         ELSE 0

\* One-sided count: np.sum(nulls < real) or np.sum(nulls > real).
RECURSIVE CountExtreme(_, _, _)
CountExtreme(nulls, real, dir) ==
    IF nulls = << >> THEN 0
    ELSE (IF dir = "less" THEN (IF FLess(Head(nulls), real) THEN 1 ELSE 0)
                          ELSE (IF FGreater(Head(nulls), real) THEN 1 ELSE 0))
         + CountExtreme(Tail(nulls), real, dir)

\* if p_value < 0.05 ... elif p_value > 0.95 ... else, with p = num / den.
Verdict(d, num, den) ==
    IF d \in ThresholdDrivers THEN "probability"
    ELSE IF 100 * num < 5 * den THEN "signal"
    ELSE IF HasInverse(d) /\ 100 * num > 95 * den THEN "inverse"
    ELSE "null"

(***************************************************************************)
(* State of one run of one driver script.                                  *)
(***************************************************************************)
VARIABLES
    driver,            \* the script being run
    pathGiven,         \* whether a path was given on the command line
    PrngKey,           \* the bit generator (fixed for the run)
    lat_cut,           \* run_mask_ladder: the ladder step's latitude cut
    phase,             \* position of main in the estimator's state machine
    abortCause,        \* why main stopped with an exception, or "none"
    data_map,          \* the loaded (or mock) field
    n_obj,             \* run_quasar_pipeline: number of catalog objects
    ECLIPTIC_INDICES,  \* module global of the variance drivers
    GALACTIC_LATS,     \* module global of run_jackknife
    real,              \* the observed statistic
    realCall,          \* the statistic function and parameters main used
    realField,         \* the field the observed statistic was evaluated on
    seeds,             \* the seed list handed to pool.imap
    task,              \* per seed: the worker evaluation and its outcome
    results,           \* list(pool.imap(...)) as collected so far
    faults,            \* failures injected so far
    oracle,            \* values taken so far by the opaque statistics
    rotLog,            \* (sampled matrix, returned rotation) pairs
    replay,            \* a second evaluation of one worker call
    pNum, pDen,        \* the reported p-value pNum / pDen
    verdict,           \* the printed verdict, or "none"
    callee,            \* the engine function called directly, or "none"
    callState,         \* "none", "pending" or "returned"
    callArgs,          \* its arguments
    callLocals,        \* its local variables when it returned or raised
    callRet            \* what it returned, or the exception it raised

dvars == <<driver, pathGiven, PrngKey, lat_cut, phase, abortCause, data_map,
           n_obj, ECLIPTIC_INDICES, GALACTIC_LATS, real, realCall, realField, seeds, task,
           results, faults, oracle, rotLog, replay, pNum, pDen, verdict>>
evars == <<callee, callState, callArgs, callLocals, callRet>>
vars == <<dvars, evars>>

\* No engine function has been called directly.
NoEngineCall ==
    /\ callee = "none"
    /\ callState = "none"
    /\ callArgs = << >>
    /\ callLocals = << >>
    /\ callRet = << >>

NoRng == [seed |-> 0 - 1, pos |-> 0]
NoReplay == [idx |-> 0, val |-> NaN]
\* ECLIPTIC_INDICES = None, GALACTIC_LATS = None at module level.
NoIndices == [set |-> FALSE, idx |-> {}]
NoLats == [set |-> FALSE, lat |-> << >>]
\* The module globals as one process holds them.
Globals(indices, lats) == [ECLIPTIC_INDICES |-> indices, GALACTIC_LATS |-> lats]
\* The globals of a process that imports the module afresh.
ImportedGlobals == Globals(NoIndices, NoLats)
\* A queued worker call; glob is the module globals of the pool process
\* that executes it.
PendingTask == [st |-> "pending", val |-> NaN, call |-> NoCall,
                fld |-> ZeroField, x |-> 0, rng |-> NoRng, src |-> 0,
                glob |-> ImportedGlobals]

\* Source resolutions a FITS file can have, and catalog sizes a file can hold.
SourceNsides == {32, 64, 128}
CatalogSizes == {1, 3, 2001}

Init ==
    /\ driver \in Drivers
    /\ pathGiven \in (IF HasMock(driver) THEN BOOLEAN ELSE {TRUE})
    /\ PrngKey \in 0..MaxKey
    /\ lat_cut \in (IF driver = "run_mask_ladder" THEN LadderCuts ELSE {0})
    /\ phase = "START"
    /\ abortCause = "none"
    /\ data_map = ZeroField
    /\ n_obj = 0
    /\ ECLIPTIC_INDICES = NoIndices
    /\ GALACTIC_LATS = NoLats
    /\ real = NaN
    /\ realCall = NoCall
    /\ realField = ZeroField
    /\ seeds = << >>
    /\ task = << >>
    /\ results = << >>
    /\ faults = 0
    /\ oracle = {}
    /\ rotLog = {}
    /\ replay = NoReplay
    /\ pNum = 0
    /\ pDen = 0
    /\ verdict = "none"
    /\ NoEngineCall

(***************************************************************************)
(* The opaque statistics: deterministic functions of (call, input), whose  *)
(* values are fixed the first time they are evaluated.                     *)
(***************************************************************************)
UsesOracle(call, nobj) ==
    /\ call.fn # "belt_variance"
    /\ ~(call.fn = "separation_alignment" /\ nobj < 2)

OracleOK(key, v) == \A e \in oracle : e[1] = key => e[2] = v

\* The values the statistic `call` can return on input (fld, x).
StatValues(call, fld, x, nobj, belt) ==
    IF call.fn = "belt_variance"
    THEN {IF call.galcut = 0 THEN RealBeltVariance(fld, belt)
                             ELSE WorkerBeltVariance(fld, belt)}
    ELSE IF call.fn = "separation_alignment" /\ nobj < 2
    THEN {NaN}   \* no pairs: np.mean of an empty array
    ELSE {v \in StatSample : OracleOK(<<call, fld, x>>, v)}

OracleAfter(call, fld, x, nobj, v) ==
    IF UsesOracle(call, nobj) THEN oracle \cup {<< <<call, fld, x>>, v >>}
    ELSE oracle

(***************************************************************************)
(* main: load, precompute, observed statistic.                             *)
(***************************************************************************)
Abort(cause) ==
    /\ phase' = "ABORTED"
    /\ abortCause' = cause

\* ingestion.load_map: raises below NSIDE, returns a field at NSIDE else.
LoadMapOutcomes == {[ok |-> s >= NSIDE, m |-> m] : s \in SourceNsides, m \in Fields}

\* Step 1 of every main: load the file or generate the mock input.
Load ==
    /\ phase = "START"
    /\ IF driver = "run_quasar_pipeline"
       THEN \E exists \in BOOLEAN, n \in CatalogSizes :
              /\ n_obj' = (IF pathGiven /\ exists THEN n ELSE MockObjects)
              /\ data_map' = data_map
              /\ phase' = "CONFIGURED"
              /\ abortCause' = abortCause
       ELSE IF pathGiven
       THEN \E o \in LoadMapOutcomes :
              /\ n_obj' = n_obj
              /\ IF o.ok
                 THEN data_map' = o.m /\ phase' = "CONFIGURED"
                      /\ abortCause' = abortCause
                 ELSE data_map' = data_map /\ Abort("ingestion")
       ELSE \E m \in Fields :
              /\ (driver = "run_parity_pipeline" => m = FieldSeq[1])
              /\ data_map' = m
              /\ n_obj' = n_obj
              /\ phase' = "CONFIGURED"
              /\ abortCause' = abortCause
    /\ UNCHANGED <<evars, driver, pathGiven, PrngKey, lat_cut, ECLIPTIC_INDICES, GALACTIC_LATS, real,
                   realCall, realField, seeds, task, results, faults, oracle,
                   rotLog, replay, pNum, pDen, verdict>>

UsesBelt(d) == d \in {"run_variance_pipeline", "run_jackknife"}

\* main of the variance drivers: ECLIPTIC_INDICES = ... before the real score.
Precompute ==
    /\ phase = "CONFIGURED"
    /\ UsesBelt(driver)
    /\ ~ECLIPTIC_INDICES.set
    /\ ECLIPTIC_INDICES' = [set |-> TRUE, idx |-> PrecomputeEclipticIndices]
    /\ GALACTIC_LATS' =
           (IF driver = "run_jackknife"
            THEN [set |-> TRUE,
                  lat |-> [p \in ECLIPTIC_INDICES'.idx |-> GalLatDeg[p]]]
            ELSE GALACTIC_LATS)
    /\ UNCHANGED <<evars, driver, pathGiven, PrngKey, lat_cut, phase, abortCause,
                   data_map, n_obj, real, realCall, realField, seeds, task,
                   results, faults, oracle, rotLog, replay, pNum, pDen, verdict>>

\* The input main hands to the observed statistic.  run_jackknife calls
\* worker_jackknife(0, data_map), which rotates with the seed-0 generator.
RealInput(d, key, m) ==
    IF d = "run_jackknife" THEN FirstNull(key, m, 0) ELSE m

\* Exceptions main meets while computing the observed statistic:
\*  run_geo_pipeline reads real_metrics['dist_dipole'], a key that
\*  check_nodal_alignment does not return;
\*  run_phase3_tomography passes 5-tuples to _worker_scan_single_direction,
\*  which unpacks exactly three;
\*  get_separation_vectors raises above MaxObjects.
RealRaises(d, nobj) ==
    CASE d = "run_geo_pipeline"      -> "KeyError"
      [] d = "run_phase3_tomography" -> "scan_worker_ValueError"
      [] d = "run_quasar_pipeline" /\ nobj > MaxObjects -> "capacity_ValueError"
      [] OTHER -> "none"

\* Step 2 of every main: the observed statistic.
ComputeReal ==
    /\ phase = "CONFIGURED"
    /\ UsesBelt(driver) => ECLIPTIC_INDICES.set
    /\ IF RealRaises(driver, n_obj) # "none"
       THEN /\ Abort(RealRaises(driver, n_obj))
            /\ UNCHANGED <<real, realCall, realField, oracle, rotLog>>
       ELSE IF driver \in ThresholdDrivers
       THEN /\ real' = THRESHOLD
            /\ phase' = "REAL_COMPUTED"
            /\ UNCHANGED <<abortCause, realCall, realField, oracle, rotLog>>
       ELSE LET fld  == RealInput(driver, PrngKey, data_map)
                call == RealCall(driver)
                belt == BeltOf(driver, Globals(ECLIPTIC_INDICES, GALACTIC_LATS))
            IN  \E v \in StatValues(call, fld, 0, n_obj, belt) :
                  /\ real' = v
                  /\ realCall' = call
                  /\ realField' = fld
                  /\ oracle' = OracleAfter(call, fld, 0, n_obj, v)
                  /\ rotLog' = (IF driver = "run_jackknife"
                                THEN rotLog \cup
                                     {[Q |-> GetRandomRotation(PrngKey, default_rng(0)).Q,
                                       R |-> GetRandomRotation(PrngKey, default_rng(0)).R]}
                                ELSE rotLog)
                  /\ phase' = "REAL_COMPUTED"
                  /\ abortCause' = abortCause
    /\ UNCHANGED <<evars, driver, pathGiven, PrngKey, lat_cut, data_map, n_obj,
                   ECLIPTIC_INDICES, GALACTIC_LATS, seeds, task, results, faults,
                   replay,
                   pNum, pDen, verdict>>

\* The module globals of a pool process started by re-importing the module
\* (start method 'spawn').
PoolProcessGlobalsSpawn(g) == ImportedGlobals

\* mp.set_start_method('fork'): a pool process is a copy of main's memory at
\* the time mp.Pool(...) starts it, module globals included.
PoolProcessGlobals(g) == g

\* seeds = [...]; with mp.Pool(...) as pool: pool.imap(worker, seeds)
SpawnPool ==
    /\ phase = "REAL_COMPUTED"
    /\ seeds' = SeedList(SeedBase(driver, lat_cut), NSims(driver))
    /\ task' = [i \in 1..NSims(driver) |->
                   [PendingTask EXCEPT !.glob =
                        PoolProcessGlobals(Globals(ECLIPTIC_INDICES, GALACTIC_LATS))]]
    /\ phase' = "NULLS_RUNNING"
    /\ UNCHANGED <<evars, driver, pathGiven, PrngKey, lat_cut, abortCause, data_map,
                   n_obj, ECLIPTIC_INDICES, GALACTIC_LATS, real, realCall, realField, results,
                   faults, oracle, rotLog, replay, pNum, pDen, verdict>>

(***************************************************************************)
(* The workers.                                                            *)
(***************************************************************************)
\* shuffling.shuffle_catalog_vectors(ra, dec, method='spin'): it builds
\* rng = np.random.default_rng() from OS entropy, whatever the caller's
\* seed, and spins every right ascension by rng.uniform(0, 360).
ShuffleSpinOffsets == {SpinOffset(e) : e \in 0..MaxEntropy}

\* The generator a worker builds from the seed it is handed:
\* NullGenerator(original_map, seed=seed), np.random.seed(seed) or
\* np.random.default_rng(seed).
WorkerRng(seed) == default_rng(seed)

\* What worker number i does before it measures: the null input it builds,
\* the generator it built (as left after use) and the identity of the
\* generator object its variates came from.
NullInputs(d, key, m, seed, cut, i) ==
    IF d = "run_quasar_pipeline"
    THEN {[fld |-> ZeroField, x |-> off, rng |-> WorkerRng(seed),
           src |-> NSims(d) + i, Q |-> Identity3, R |-> Identity3]
            : off \in ShuffleSpinOffsets}
    ELSE IF d \in SynfastDrivers
    THEN {[fld |-> ApplyMask(SynFast(key, WorkerRng(seed).seed), cut), x |-> 0,
           rng |-> [WorkerRng(seed) EXCEPT !.pos = 1],
           src |-> i, Q |-> Identity3, R |-> Identity3]}
    ELSE LET g == GetRandomRotation(key, WorkerRng(seed))
         IN  {[fld |-> RotateMapPixel(m, g.R), x |-> 0, rng |-> g.rng,
               src |-> i, Q |-> g.Q, R |-> g.R]}

\* Workers that cannot return: worker_null_spot reads
\* metrics['dist_solar_spin'], which check_nodal_alignment does not return;
\* worker_null_tomography passes lmin/lmax to scan_parity_directions, which
\* does not accept them.
WorkerAlwaysRaises(d) == d \in {"run_geo_pipeline", "run_phase3_tomography"}

\* One worker call worker(seed_i) running to its return value.
WorkerEval(i) ==
    /\ phase = "NULLS_RUNNING"
    /\ i \in DOMAIN task
    /\ task[i].st = "pending"
    /\ ~WorkerAlwaysRaises(driver)
    /\ \E inp \in NullInputs(driver, PrngKey, data_map, seeds[i], lat_cut, i) :
         \E v \in StatValues(NullCall(driver), inp.fld, inp.x, n_obj,
                             BeltOf(driver, task[i].glob)) :
           /\ task' = [task EXCEPT ![i] =
                          [st |-> "done", val |-> v, call |-> NullCall(driver),
                           fld |-> inp.fld, x |-> inp.x, rng |-> inp.rng,
                           src |-> inp.src, glob |-> task[i].glob]]
           /\ oracle' = OracleAfter(NullCall(driver), inp.fld, inp.x, n_obj, v)
           /\ rotLog' = (IF driver \in RotationDrivers
                         THEN rotLog \cup {[Q |-> inp.Q, R |-> inp.R]}
                         ELSE rotLog)
    /\ UNCHANGED <<evars, driver, pathGiven, PrngKey, lat_cut, phase, abortCause,
                   data_map, n_obj, ECLIPTIC_INDICES, GALACTIC_LATS, real, realCall, realField,
                   seeds, results, faults, replay, pNum, pDen, verdict>>

\* One worker call in which an exception is raised, while the null input is
\* generated or while it is measured.  Only the synfast workers catch, and
\* only around the measurement.
WorkerFault(i) ==
    /\ phase = "NULLS_RUNNING"
    /\ i \in DOMAIN task
    /\ task[i].st = "pending"
    /\ faults < MaxFaults \/ WorkerAlwaysRaises(driver)
    /\ \E stage \in {"generate", "measure"} :
         \E inp \in NullInputs(driver, PrngKey, data_map, seeds[i], lat_cut, i) :
           task' = [task EXCEPT ![i] =
                      IF WorkerCatches(driver, stage)
                      THEN [st |-> "done", val |-> FallbackAngle,
                            call |-> NullCall(driver), fld |-> inp.fld,
                            x |-> inp.x, rng |-> inp.rng, src |-> inp.src,
                            glob |-> task[i].glob]
                      ELSE [task[i] EXCEPT !.st = "raised"]]
    /\ faults' = faults + 1
    /\ UNCHANGED <<evars, driver, pathGiven, PrngKey, lat_cut, phase, abortCause,
                   data_map, n_obj, ECLIPTIC_INDICES, GALACTIC_LATS, real, realCall, realField,
                   seeds, results, oracle, rotLog, replay, pNum, pDen, verdict>>

\* EnsembleComplete letting main go on one sample short.
EnsembleCompleteEarly(res, n) == Len(res) >= n - 1

\* list(pool.imap(worker, seeds)) has returned: every seed has its value.
EnsembleComplete(res, n) == Len(res) = n

\* main iterating pool.imap: results arrive in seed order; the exception of
\* a failed worker call is re-raised in main when its turn comes.
Collect ==
    /\ phase = "NULLS_RUNNING"
    /\ Len(results) < Len(task)
    /\ LET k == Len(results) + 1
       IN  \/ /\ task[k].st = "done"
              /\ results' = Append(results, task[k].val)
              /\ phase' = (IF EnsembleComplete(results', NSims(driver))
                           THEN "NULLS_COMPLETE" ELSE phase)
              /\ abortCause' = abortCause
           \/ /\ task[k].st = "raised"
              /\ results' = results
              /\ Abort("worker_exception")
    /\ UNCHANGED <<evars, driver, pathGiven, PrngKey, lat_cut, data_map, n_obj,
                   ECLIPTIC_INDICES, GALACTIC_LATS, real, realCall, realField,
                   seeds, task,
                   faults, oracle, rotLog, replay, pNum, pDen, verdict>>

\* The statistics block of main: count, p-value, verdict.
Report ==
    /\ phase = "NULLS_COMPLETE"
    /\ pNum' = CountExtreme(results, real, Direction(driver))
    /\ pDen' = NSims(driver)
    /\ verdict' = Verdict(driver, pNum', pDen')
    /\ phase' = "REPORTED"
    /\ UNCHANGED <<evars, driver, pathGiven, PrngKey, lat_cut, abortCause, data_map,
                   n_obj, ECLIPTIC_INDICES, GALACTIC_LATS, real, realCall, realField, seeds,
                   task, results, faults, oracle, rotLog, replay>>

\* The worker of seed_i called a second time on the same base data, as a
\* rerun of the script does.
Rerun(i) ==
    /\ phase = "REPORTED"
    /\ replay = NoReplay
    /\ i \in DOMAIN task
    /\ \E inp \in NullInputs(driver, PrngKey, data_map, seeds[i], lat_cut, i) :
         \E v \in StatValues(NullCall(driver), inp.fld, inp.x, n_obj,
                             BeltOf(driver, task[i].glob)) :
           /\ replay' = [idx |-> i, val |-> v]
           /\ oracle' = OracleAfter(NullCall(driver), inp.fld, inp.x, n_obj, v)
    /\ UNCHANGED <<evars, driver, pathGiven, PrngKey, lat_cut, phase, abortCause,
                   data_map, n_obj, ECLIPTIC_INDICES, GALACTIC_LATS, real, realCall, realField,
                   seeds, task, results, faults, rotLog, pNum, pDen, verdict>>

Next ==
    \/ Load
    \/ Precompute
    \/ ComputeReal
    \/ SpawnPool
    \/ \E i \in 1..MaxSims : WorkerEval(i)
    \/ \E i \in 1..MaxSims : WorkerFault(i)
    \/ Collect
    \/ Report
    \/ \E i \in 1..MaxSims : Rerun(i)

Spec == Init /\ [][Next]_vars

\* Every step of main and of the pool is eventually taken when it stays
\* possible: main runs to completion and the pool runs every queued task.
FairSpec == Spec /\ WF_vars(Next)

(***************************************************************************)
(* Properties.                                                             *)
(***************************************************************************)
Tasks == DOMAIN task
DoneTasks == {i \in Tasks : task[i].st = "done"}
AfterReal == {"REAL_COMPUTED", "NULLS_RUNNING", "NULLS_COMPLETE", "REPORTED"}

\* Number of collected null values strictly beyond `obs` in direction dir;
\* a value equal to obs, or a NaN on either side, is not counted.
StrictlyBeyond(obs, dir) ==
    Cardinality({i \in 1..Len(results) :
        /\ results[i] # NaN
        /\ obs # NaN
        /\ IF dir = "less" THEN results[i] < obs ELSE results[i] > obs})

\* C1 as stated: the reported p-value is (number of null values strictly
\* more extreme than the observed statistic) / N, where "more extreme" is
\* strictly smaller for every angle and variance test and strictly larger
\* for the quasar alignment score; ties are not counted and 0 <= N*p <= N.
C1_AsStated ==
    phase = "REPORTED" =>
        /\ pDen = NSims(driver)
        /\ pNum = StrictlyBeyond(real,
                     IF driver = "run_quasar_pipeline" THEN "greater" ELSE "less")
        /\ 0 <= pNum /\ pNum <= pDen

\* C1 amended: as C1, with "more extreme" strictly smaller for the angle
\* tests and run_variance_pipeline, and strictly larger for the quasar
\* alignment score and for run_jackknife's variance test.
C1_PValueIsStrictCount ==
    phase = "REPORTED" =>
        /\ pDen = NSims(driver)
        /\ pNum = StrictlyBeyond(real,
                     IF driver \in {"run_quasar_pipeline", "run_jackknife"}
                     THEN "greater" ELSE "less")
        /\ 0 <= pNum /\ pNum <= pDen

\* A jackknife report in which one null ties with the observed variance and
\* another one is strictly larger.
C1_Witness ==
    /\ phase = "REPORTED"
    /\ driver = "run_jackknife"
    /\ \E i, j \in 1..Len(results) : results[i] = real /\ results[j] > real
    /\ pNum < pDen

\* C2: the statistic evaluated on every null field is the same function
\* with the same parameters (scan grid, band, pixel cuts) as the statistic
\* that produced the observed value.
C2_SameStatisticOnNulls ==
    driver \notin ThresholdDrivers =>
        \A i \in DoneTasks : task[i].call = realCall

\* C3: the observed statistic is computed on the loaded field itself, with
\* no rotation applied; run_jackknife's real variance is the variance of
\* the selected pixels of the unrotated map.
C3_RealOnUnrotatedField ==
    (phase \in AfterReal /\ driver \notin ThresholdDrivers) =>
        /\ realField = data_map
        /\ driver = "run_jackknife" =>
               real = WorkerBeltVariance(data_map,
                          BeltOf(driver, Globals(ECLIPTIC_INDICES, GALACTIC_LATS)))

\* C4: an exception raised inside a worker's null evaluation is caught in
\* that worker and replaced by a fallback value: no worker call ends by
\* raising and the run is never aborted by a worker's exception.
C4_WorkerFailureContained ==
    /\ \A i \in Tasks : task[i].st # "raised"
    /\ abortCause # "worker_exception"

PhaseOrder ==
    {<<"START", "CONFIGURED">>, <<"CONFIGURED", "REAL_COMPUTED">>,
     <<"REAL_COMPUTED", "NULLS_RUNNING">>, <<"NULLS_RUNNING", "NULLS_COMPLETE">>,
     <<"NULLS_COMPLETE", "REPORTED">>,
     <<"START", "ABORTED">>, <<"CONFIGURED", "ABORTED">>,
     <<"NULLS_RUNNING", "ABORTED">>}

Printed == verdict # "none" \/ pDen # 0

\* C5: a p-value and verdict exist only once the observed statistic has been
\* computed and all N null samples have been collected, the phases being
\* passed in the order CONFIGURED, REAL_COMPUTED, NULLS_RUNNING,
\* NULLS_COMPLETE, REPORTED; a run that aborts prints no p-value or verdict.
C5_ReportOnlyAfterFullEnsemble ==
    /\ [](Printed =>
            /\ phase = "REPORTED"
            /\ Len(results) = NSims(driver)
            /\ \A i \in 1..NSims(driver) :
                   task[i].st = "done" /\ results[i] = task[i].val)
    /\ [](phase = "ABORTED" => ~Printed)
    /\ [][phase' # phase => <<phase, phase'>> \in PhaseOrder]_vars

\* A pool aborted by a worker's exception after part of the ensemble was
\* collected, with nothing printed.
C5_Witness ==
    /\ phase = "ABORTED"
    /\ abortCause = "worker_exception"
    /\ Len(results) >= 1
    /\ ~Printed

\* C6: a null worker called twice with the same seed on the same base data
\* returns the same scalar, in every driver.
C6_SameSeedSameValue ==
    (replay.idx # 0 /\ faults = 0) => replay.val = task[replay.idx].val

\* C7: the N seeds of one ensemble are base, base+1, ..., base+N-1, hence
\* pairwise distinct, and every evaluation builds its generator from its
\* own seed and draws from a generator no other evaluation draws from.
C7_DistinctSeedsOwnGenerator ==
    phase \in {"NULLS_RUNNING", "NULLS_COMPLETE", "REPORTED"} =>
        /\ Len(seeds) = NSims(driver)
        /\ \A i \in 1..Len(seeds) : seeds[i] = seeds[1] + (i - 1)
        /\ \A i, j \in 1..Len(seeds) : i # j => seeds[i] # seeds[j]
        /\ \A i \in DoneTasks :
              /\ task[i].rng.seed = seeds[i]
              /\ \A j \in DoneTasks : j # i =>
                    /\ task[j].src # task[i].src
                    /\ task[j].rng.seed # task[i].rng.seed

\* A complete ensemble of the mask ladder's last step, all workers done.
C7_Witness ==
    /\ phase = "NULLS_COMPLETE"
    /\ driver = "run_mask_ladder"
    /\ lat_cut = 40
    /\ DoneTasks = 1..NSims(driver)
    /\ NSims(driver) >= 2

\* C8: every matrix _get_random_rotation returns is orthogonal with
\* determinant +1; a sample of determinant -1 is returned with exactly its
\* first column negated, a sample of determinant +1 unchanged.
C8_RotationInSO3 ==
    \A e \in rotLog :
        /\ IsOrthogonal(e.R)
        /\ Det(e.R) = 1
        /\ Det(e.Q) = 0 - 1 =>
              \A i, j \in 1..3 :
                  e.R[i][j] = (IF j = 1 THEN 0 - e.Q[i][j] ELSE e.Q[i][j])
        /\ Det(e.Q) = 1 => e.R = e.Q

\* One run in which a reflection and a proper rotation were both sampled.
C8_Witness ==
    \E e, f \in rotLog : Det(e.Q) = 0 - 1 /\ Det(f.Q) = 1 /\ e.R # e.Q

\* C9: the reported p-value is the same for every order in which the N
\* worker results are stored: ranking any permutation of the collected
\* ensemble gives the reported count, and the collected ensemble holds each
\* worker's value whatever the order the workers finished in.
C9_PValueOrderInvariant ==
    phase = "REPORTED" =>
        /\ \A f \in Permutations(1..Len(results)) :
              CountExtreme([i \in 1..Len(results) |-> results[f[i]]],
                           real, Direction(driver)) = pNum
        /\ \A i \in 1..Len(results) : results[i] = task[i].val

\* A report over an ensemble in which an extreme value is stored after a
\* value that is not extreme.
C9_Witness ==
    /\ phase = "REPORTED"
    /\ Direction(driver) = "less"
    /\ \E i, j \in 1..Len(results) :
          i < j /\ ~FLess(results[i], real) /\ FLess(results[j], real)

\* C10: a driver whose input loaded (or that runs on its mock input) and
\* that met no worker failure computes the observed statistic, completes
\* its N samples and prints a verdict; so a run never stops short for any
\* reason other than an ingestion error or a failed worker call.
C10_LoadedRunReports ==
    phase = "ABORTED" =>
        abortCause \in {"ingestion", "worker_exception", "scan_worker_ValueError"}

(***************************************************************************)
(* The engines, called directly.  A field is given by its harmonic         *)
(* content: a function from (l, m), 0 <= m <= l, to a complex coefficient  *)
(* <<re, im>>.  Powers are kept in units of 1/(2 pi) and a quotient of two *)
(* powers is an exact fraction.                                            *)
(***************************************************************************)
\* Highest degree carried by the sample fields.
MaxL == 3

RECURSIVE GCD(_, _)
GCD(a, b) == IF b = 0 THEN a ELSE GCD(b, a % b)

\* Float division n / d of two powers, d > 0, as a fraction in lowest terms.
Frac(n, d) ==
    LET g == GCD(Abs(n), d)
    IN  [num |-> n \div g, den |-> d \div g]
\* The float literal 0.0.
FloatZero == [num |-> 0, den |-> 1]

\* hp.Alm.getidx: the index set of a coefficient array of band limit lmax.
AlmIdx(lmax) == {i \in (0..lmax) \X (0..lmax) : i[2] <= i[1]}
\* np.abs(c) ** 2 of a complex number.
AbsSq(c) == c[1] * c[1] + c[2] * c[2]

\* The amplitude the parity test injects at degrees below 2.
DipoleAmp == 100
\* Sample fields: at degrees below 2 nothing or a large amplitude; from
\* degree 2 up one of three real coefficients at m = 0 and nothing or an
\* imaginary coefficient at m = 1.
FreeIdx == {i \in AlmIdx(MaxL) : i[2] <= 1}
Coef(i, k) ==
    IF k = 0 THEN <<0, 0>>
    ELSE IF i[1] < 2 THEN <<k * DipoleAmp, 0>>
    ELSE IF i[2] = 0 THEN <<k, 0>> ELSE <<0, 2 * k>>
CoefCodes(i) == IF i[1] >= 2 /\ i[2] = 0 THEN 0..2 ELSE 0..1
HarmonicFields ==
    {[i \in AlmIdx(MaxL) |-> IF i \in FreeIdx THEN Coef(i, c[i]) ELSE <<0, 0>>] :
        c \in {d \in [FreeIdx -> 0..2] : \A i \in FreeIdx : d[i] \in CoefCodes(i)}}

\* hp.remove_dipole: the monopole and dipole fitted on the sphere are
\* subtracted, which clears degrees 0 and 1.  The second definition leaves
\* the field as it is.
remove_dipole_kept(f) == f
remove_dipole(f) == [i \in DOMAIN f |-> IF i[1] <= 1 THEN <<0, 0>> ELSE f[i]]

\* hp.map2alm(m, lmax): the coefficients of the field up to degree lmax.
map2alm(f, lmax) ==
    [i \in AlmIdx(lmax) |-> IF i \in DOMAIN f THEN f[i] ELSE <<0, 0>>]

\* cl_total of one degree: m = 0 once, every m > 0 twice.  The first
\* definition counts every m once.
DegreePowerOnce(alm, l) ==
    LET s[m \in 0..l] == AbsSq(alm[<<l, m>>]) + (IF m = 0 THEN 0 ELSE s[m - 1])
    IN  s[l]
DegreePower(alm, l) ==
    LET s[m \in 0..l] == IF m = 0 THEN 0 ELSE s[m - 1] + AbsSq(alm[<<l, m>>])
    IN  AbsSq(alm[<<l, 0>>]) + 2 * s[l]

\* The factor l (l + 1) of l (l + 1) / (2 pi).  The first definition weighs
\* every degree alike.
WeightFlat(l) == 1
Weight(l) == l * (l + 1)

\* get_parity_modes: the loop over range(L_MIN, lmax + 1).
get_parity_modes(alm, lmax) ==
    LET acc[l \in (L_MIN - 1)..lmax] ==
            IF l < L_MIN THEN [P_plus |-> 0, P_minus |-> 0]
            ELSE LET w == Weight(l) * DegreePower(alm, l)
                 IN  IF l % 2 = 0
                     THEN [acc[l - 1] EXCEPT !.P_plus = @ + w]
                     ELSE [acc[l - 1] EXCEPT !.P_minus = @ + w]
    IN  IF lmax < L_MIN THEN [P_plus |-> 0, P_minus |-> 0] ELSE acc[lmax]

\* calculate_point_parity: its locals and its return value.
calculate_point_parity(map_data, lmax) ==
    LET map_cleaned == remove_dipole(map_data)
        alm == map2alm(map_cleaned, lmax)
        P == get_parity_modes(alm, lmax)
    IN  [locals |-> [map_cleaned |-> map_cleaned, alm |-> alm,
                     P_plus |-> P.P_plus, P_minus |-> P.P_minus],
         ret |-> IF P.P_plus + P.P_minus = 0
                 THEN FloatZero
                 ELSE Frac(P.P_plus - P.P_minus, P.P_plus + P.P_minus)]

(***************************************************************************)
(* engines/parity.py : the directional scan and its pool helper.           *)
(***************************************************************************)
\* def scan_parity_directions(map_data, nside_scan=8): the parameter names.
ScanParams == {"map_data", "nside_scan"}
\* _worker_scan_single_direction: map_data, pix_idx, nside_scan = args.
WorkerArgsLen == 3
\* The three bins of run_phase3_tomography.
BINS == {<<2, 30>>, <<31, 60>>, <<61, 100>>}
\* hp.nside2npix.
nside2npix(nside) == 12 * nside * nside

\* What a scan evaluates in every direction: calculate_point_parity with its
\* default lmax, so the band from L_MIN to L_MAX.
ScanOutcome(nside) ==
    [raised |-> "none", npix |-> nside2npix(nside), lmin |-> L_MIN, lmax |-> L_MAX]
Raised(exc) == [raised |-> exc, npix |-> 0, lmin |-> 0, lmax |-> 0]

\* A call scan_parity_directions(map, **kw): Python raises TypeError for a
\* keyword the function does not declare.
scan_parity_directions(kw) ==
    IF ~ (DOMAIN kw \subseteq ScanParams)
    THEN Raised("TypeError")
    ELSE ScanOutcome(IF "nside_scan" \in DOMAIN kw THEN kw.nside_scan ELSE 8)

\* A call _worker_scan_single_direction(args): the unpacking raises
\* ValueError unless args has exactly three items.
worker_scan_single_direction(args) ==
    IF Len(args) # WorkerArgsLen
    THEN Raised("ValueError")
    ELSE [ScanOutcome(args[3]) EXCEPT !.npix = 1]

\* The calls the drivers make: run_parity_pipeline without a band,
\* run_phase3_tomography with the band of each bin.
ScanKeywords ==
    {[nside_scan |-> 4]} \cup
    {[nside_scan |-> 4, lmin |-> b[1], lmax |-> b[2]] : b \in BINS}
WorkerTuples ==
    {<<"map", i, 8>> : i \in {0, 767}} \cup
    {<<"map", i, 8, b[1], b[2]>> : i \in {0, 767}, b \in BINS}

(***************************************************************************)
(* engines/harmonics.py : get_principal_axis.  Synthesis is exact on the   *)
(* six axis pixels, with harmonics left unnormalised (each Y_lm is scaled  *)
(* by l! and by its own positive constant).                                *)
(***************************************************************************)
\* l! P_l(t) by the three-term recurrence.
LegendreQ(l, t) ==
    LET q[k \in 0..l] ==
            IF k = 0 THEN 1
            ELSE IF k = 1 THEN t
            ELSE (2 * k - 1) * t * q[k - 1] - (k - 1) * (k - 1) * q[k - 2]
    IN  q[l]
\* l! times the m-th derivative of P_l at 0.
LegendreD0(l, m) ==
    LET d[k \in 0..m] ==
            IF k = 0 THEN LegendreQ(l, 0)
            ELSE IF k = 1 THEN l * l * LegendreQ(l - 1, 0)
            ELSE 0 - (l * (l + 1) - (k - 2) * (k - 1)) * d[k - 2]
    IN  d[m]
CMul(a, b) == <<a[1] * b[1] - a[2] * b[2], a[1] * b[2] + a[2] * b[1]>>
\* (x + i y)^m.
CPow(c, m) ==
    LET p[k \in 0..m] == IF k = 0 THEN <<1, 0>> ELSE CMul(p[k - 1], c)
    IN  p[m]
\* Y_lm at an axis pixel v: P_l(z) for m = 0, and for m > 0 the value
\* (-1)^m P_l^(m)(0) e^(i m phi) on the equator and 0 at the poles.
Ylm(l, m, v) ==
    IF m = 0 THEN <<LegendreQ(l, v[3]), 0>>
    ELSE LET e == CPow(<<v[1], v[2]>>, m)
             s == (IF m % 2 = 0 THEN 1 ELSE 0 - 1) * LegendreD0(l, m)
         IN  <<s * e[1], s * e[2]>>

\* hp.alm2map on the six pixels: a_l0 Y_l0 + 2 Re(sum over m > 0 of a_lm Y_lm).
alm2map(alm) ==
    LET term(i, p) ==
            LET c == CMul(alm[i], Ylm(i[1], i[2], PixVec[p]))
            IN  IF i[2] = 0 THEN c[1] ELSE 2 * c[1]
        RECURSIVE total(_, _)
        total(S, p) ==
            IF S = {} THEN 0
            ELSE LET i == CHOOSE j \in S : TRUE
                 IN  term(i, p) + total(S \ {i}, p)
        at(p) == total(DOMAIN alm, p)
    IN  <<at(1), at(2), at(3), at(4), at(5), at(6)>>

\* alm_filtered: zeros_like(alm) with the entries of degree l copied in.
filter_degree(alm, l) ==
    [i \in DOMAIN alm |-> IF i[1] = l THEN alm[i] ELSE <<0, 0>>]

\* cov = vecs.T @ (vecs * weights[:, None]) with weights = m_l ** 2.
WeightedCov(m_l) ==
    LET RECURSIVE acc(_, _, _)
        acc(p, i, j) ==
            IF p = 0 THEN 0
            ELSE PixVec[p][i] * (m_l[p] * m_l[p]) * PixVec[p][j] + acc(p - 1, i, j)
    IN  << <<acc(NPix, 1, 1), acc(NPix, 1, 2), acc(NPix, 1, 3)>>,
           <<acc(NPix, 2, 1), acc(NPix, 2, 2), acc(NPix, 2, 3)>>,
           <<acc(NPix, 3, 1), acc(NPix, 3, 2), acc(NPix, 3, 3)>> >>

\* np.linalg.eigh of a diagonal matrix: eigenvalues ascending and, column by
\* column, a unit eigenvector of each; equal eigenvalues come in any order
\* and every eigenvector with either sign.
Eigh(cov) ==
    {[evals |-> <<cov[pi[1]][pi[1]], cov[pi[2]][pi[2]], cov[pi[3]][pi[3]]>>,
      evecs |-> [r \in 1..3 |-> [c \in 1..3 |-> IF r = pi[c] THEN s[c] ELSE 0]]] :
        pi \in {q \in Permutations(1..3) :
                   cov[q[1]][q[1]] <= cov[q[2]][q[2]] /\ cov[q[2]][q[2]] <= cov[q[3]][q[3]]},
        s \in [1..3 -> {1, 0 - 1}]}
\* evecs[:, k] for the 0-based column index k.
Column(M, k) == <<M[1][k + 1], M[2][k + 1], M[3][k + 1]>>

\* The column get_principal_axis returns: evecs[:, 0].  The first definition
\* takes the last column.
ReturnedColumnLast(evecs) == Column(evecs, 2)
ReturnedColumn(evecs) == Column(evecs, 0)

\* get_principal_axis(alm, l): the outcomes the eigen-decomposition allows,
\* each with the locals and the return value; the argument array is only
\* read, so the caller finds it as it was.
get_principal_axis(alm, l) ==
    LET alm_filtered == filter_degree(alm, l)
        m_l == alm2map(alm_filtered)
        cov == WeightedCov(m_l)
    IN  {[locals |-> [alm_filtered |-> alm_filtered, m_l |-> m_l, cov |-> cov,
                      evals |-> e.evals],
          ret |-> [axis |-> ReturnedColumn(e.evecs), alm |-> alm]] : e \in Eigh(cov)}
PrincipalAxes(alm, l) == {r.ret.axis : r \in get_principal_axis(alm, l)}

(***************************************************************************)
(* config.py : reference directions, as (RA, Dec) in millidegrees of the   *)
(* unit vector the function builds.                                        *)
(***************************************************************************)
CMB_DIPOLE_RA_MDEG == 167942
CMB_DIPOLE_DEC_MDEG == 0 - 6944
UnitVectorAt(ra, dec) == [ra |-> ra, dec |-> dec]
get_dipole_vector == UnitVectorAt(CMB_DIPOLE_RA_MDEG, CMB_DIPOLE_DEC_MDEG)
\* get_solar_vector returns on its first statement; the statements that
\* build the vector from the Solar North Pole constants are never reached.
get_solar_vector == get_dipole_vector

SOLAR_NORTH_POLE_RA_MDEG == 286130
SOLAR_NORTH_POLE_DEC_MDEG == 63870
ECLIPTIC_POLE_RA_MDEG == 270000
ECLIPTIC_POLE_DEC_MDEG == 66560
get_ecliptic_vector == UnitVectorAt(ECLIPTIC_POLE_RA_MDEG, ECLIPTIC_POLE_DEC_MDEG)

\* np.cos and np.sin of np.radians(a) for the reference angles, in units of
\* 1e-4.
CosE4(a) ==
    CASE a = 286130 -> 2778 [] a = 63870 -> 4404 [] a = 270000 -> 0
      [] a = 66560 -> 3978 [] a = 167942 -> 0 - 9779 [] a = 0 - 6944 -> 9927
SinE4(a) ==
    CASE a = 286130 -> 0 - 9606 [] a = 63870 -> 8978 [] a = 270000 -> 0 - 10000
      [] a = 66560 -> 9175 [] a = 167942 -> 2089 [] a = 0 - 6944 -> 0 - 1209
\* np.array([x, y, z]) with x = cos(dec) cos(ra), y = cos(dec) sin(ra),
\* z = sin(dec), in units of 1e-4.
CartesianE4(v) ==
    <<(CosE4(v.dec) * CosE4(v.ra)) \div 10000,
      (CosE4(v.dec) * SinE4(v.ra)) \div 10000,
      SinE4(v.dec)>>

\* engines/quasar.py : get_quadrupole_axis transforms the map and returns
\* the solar vector.
get_quadrupole_axis(m) ==
    [locals |-> [alm |-> map2alm(m, 2)], ret |-> get_solar_vector]

(***************************************************************************)
(* Angles between two unit vectors.  A unit vector is given by its         *)
(* coordinates in fifths, a dot product in twenty-fifths, an angle in      *)
(* hundredths of a degree.                                                 *)
(***************************************************************************)
UnitScale == 5
Dot(a, b) == a[1] * b[1] + a[2] * b[2] + a[3] * b[3]
Neg(v) == <<0 - v[1], 0 - v[2], 0 - v[3]>>
\* Unit vectors with rational coordinates: the axes and the (3, 4, 0) / 5 family.
UnitVectors ==
    {<<s[1] * c[q[1]], s[2] * c[q[2]], s[3] * c[q[3]]>> :
        s \in [1..3 -> {1, 0 - 1}], q \in Permutations(1..3),
        c \in {<<5, 0, 0>>, <<3, 4, 0>>}}

\* np.degrees(np.arccos(c / 25)).
ArcCosTable == <<9000, 8771, 8541, 8311, 8079, 7846, 7611, 7374, 7134, 6890,
                 6642, 6390, 6131, 5867, 5594, 5313, 5021, 4716, 4395, 4054,
                 3687, 3286, 2836, 2307, 1626, 0>>
ArcCosDeg(c) == IF c >= 0 THEN ArcCosTable[c + 1] ELSE 18000 - ArcCosTable[1 - c]
\* np.clip(dot, -1.0, 1.0).
Clip(d) ==
    LET one == UnitScale * UnitScale
    IN  IF d > one THEN one ELSE IF d < 0 - one THEN 0 - one ELSE d

\* harmonics.analyze_axis_of_evil: arccos(abs(dot)) for each of its angles.
AxisOfEvilAngle(a, b) == ArcCosDeg(Abs(Dot(a, b)))
\* run_global_null.get_pair_angle, from the two axes on.
PairAngle(a, b) ==
    LET angle == ArcCosDeg(Abs(Dot(a, b)))
    IN  IF angle > 9000 THEN 18000 - angle ELSE angle
\* run_separation_forensics.get_separation.
SeparationAngle(a, b) ==
    LET d == Abs(Dot(a, b))
    IN  ArcCosDeg(IF d > UnitScale * UnitScale THEN UnitScale * UnitScale ELSE d)
\* run_parity_pipeline.get_alignment_angle: the dot product is clipped, its
\* sign is kept.
AlignmentAngle(a, b) == ArcCosDeg(Clip(Dot(a, b)))
\* run_phase3_tomography: the angle of the real scan and of each worker.
TomographyAngle(a, b) == ArcCosDeg(Clip(Dot(a, b)))

AngleFns == {"analyze_axis_of_evil", "get_pair_angle", "get_separation",
             "get_alignment_angle", "worker_null_tomography"}
AngleOf(f, a, b) ==
    CASE f = "analyze_axis_of_evil" -> AxisOfEvilAngle(a, b)
      [] f = "get_pair_angle" -> PairAngle(a, b)
      [] f = "get_separation" -> SeparationAngle(a, b)
      [] f = "get_alignment_angle" -> AlignmentAngle(a, b)
      [] f = "worker_null_tomography" -> TomographyAngle(a, b)

(***************************************************************************)
(* engines/quasar.py.  A catalog is a sequence of blocks, each block count *)
(* consecutive objects with the same coordinates.  The unit vector v / |v| *)
(* of an integer vector v is given by the shortest integer vector dir      *)
(* along v and n2 = |dir|^2.                                               *)
(***************************************************************************)
\* Longest catalog, in blocks, and longest vector list.
MaxBlocks == 3
MaxVecs == 2

\* sin and cos of a multiple of 90 degrees in 0..270.
SinDeg(a) == CASE a = 0 -> 0 [] a = 90 -> 1 [] a = 180 -> 0 [] a = 270 -> 0 - 1
CosDeg(a) == CASE a = 0 -> 1 [] a = 90 -> 0 [] a = 180 -> 0 - 1 [] a = 270 -> 0

\* Step 1 of get_separation_vectors: theta = 90 - dec, phi = ra.
ToCartesian(o) ==
    LET theta == 90 - o.dec
        phi == o.ra
    IN  <<o.r * SinDeg(theta) * CosDeg(phi),
          o.r * SinDeg(theta) * SinDeg(phi),
          o.r * CosDeg(theta)>>

\* Objects of the sample catalogs; the last two are at the same position.
ObjectSample == {[ra |-> 0, dec |-> 0, r |-> 100], [ra |-> 0, dec |-> 0, r |-> 200],
                 [ra |-> 0, dec |-> 90, r |-> 100], [ra |-> 90, dec |-> 90, r |-> 100]}
\* Blocks of one or two objects, and one block of 1999.
BlockSample ==
    {[obj |-> o, count |-> c] : o \in ObjectSample, c \in {1, 2}}
        \cup {[obj |-> [ra |-> 0, dec |-> 0, r |-> 100], count |-> MaxObjects - 1]}
Catalogs == UNION {[1..k -> BlockSample] : k \in 0..MaxBlocks}

\* len(coords).
RECURSIVE NumObjects(_)
NumObjects(cat) ==
    IF cat = << >> THEN 0 ELSE Head(cat).count + NumObjects(Tail(cat))

\* n_obj > 2000.  The first definition accepts every catalog.
ExceedsCapacityNever(n) == FALSE
ExceedsCapacity(n) == n > MaxObjects

\* diffs[i, j] = coords[i] - coords[j].  The first definition subtracts the
\* other way round.
PairDiffSwapped(a, b) == <<b[1] - a[1], b[2] - a[2], b[3] - a[3]>>
PairDiff(a, b) == <<a[1] - b[1], a[2] - b[2], a[3] - b[3]>>

Norm2(v) == Dot(v, v)
\* vectors / norms.
Normalize(v) ==
    LET g == GCD(GCD(Abs(v[1]), Abs(v[2])), Abs(v[3]))
        d == <<v[1] \div g, v[2] \div g, v[3] \div g>>
    IN  [dir |-> d, n2 |-> Norm2(d)]

\* The rows of normalized_vectors, each with the number of times it occurs:
\* the pairs of np.triu_indices(n_obj, k=1) take the first object from an
\* earlier block than the second, or both from one block; rows of norm 0
\* are dropped.
NormalizedRows(cat) ==
    LET pos(a) == ToCartesian(cat[a].obj)
        pairs == {p \in (1..Len(cat)) \X (1..Len(cat)) :
                     p[1] < p[2] /\ Norm2(PairDiff(pos(p[1]), pos(p[2]))) > 0}
        row(p) == Normalize(PairDiff(pos(p[1]), pos(p[2])))
        RECURSIVE times(_)
        times(S) ==
            IF S = {} THEN 0
            ELSE LET p == CHOOSE q \in S : TRUE
                 IN  cat[p[1]].count * cat[p[2]].count + times(S \ {p})
    IN  [u \in {row(p) : p \in pairs} |-> times({p \in pairs : row(p) = u})]
NoRows == [u \in {} |-> 0]

\* get_separation_vectors(ra, dec, r_comoving).
get_separation_vectors(cat) ==
    IF ExceedsCapacity(NumObjects(cat))
    THEN [raised |-> "ValueError", rows |-> NoRows]
    ELSE [raised |-> "none", rows |-> NormalizedRows(cat)]

\* np.mean of the values xs, each in units of 1 / scale: sum / len, which is
\* 0 / 0 (a NaN) for an empty array.
FloatNaN == [num |-> 0, den |-> 0]
RECURSIVE SumSeq(_)
SumSeq(xs) == IF xs = << >> THEN 0 ELSE Head(xs) + SumSeq(Tail(xs))
NpMean(xs, scale) ==
    IF Len(xs) = 0 THEN FloatNaN ELSE Frac(SumSeq(xs), scale * Len(xs))

\* correlate_with_axis(vectors, axis_vector), for vectors in fifths.
correlate_with_axis(vectors, axis_vector) ==
    LET dots == [k \in 1..Len(vectors) |-> Dot(vectors[k], axis_vector)]
        abs_cos == [k \in 1..Len(vectors) |-> Abs(dots[k])]
    IN  NpMean(abs_cos, UnitScale * UnitScale)

\* Vector lists and axes the statistic is evaluated on.
VectorSample == {<<0, 0, 5>>, <<0, 0, 0 - 5>>, <<3, 4, 0>>, <<4, 0, 3>>, <<0, 0 - 3, 4>>}
AxisSample == {<<0, 0, 5>>, <<0, 0, 0 - 5>>, <<3, 4, 0>>}
VectorLists == UNION {[1..k -> VectorSample] : k \in 0..MaxVecs}

(***************************************************************************)
(* ingestion.py : load_map.  A map is the sequence of its pixel values; on *)
(* the model sphere a map of resolution NSIDE has NPix pixels, and the     *)
(* pixels of a finer map are stored parent by parent.                      *)
(***************************************************************************)
\* Number of pixels of a map of resolution nside on the model sphere.
ModelNpix(nside) == (NPix * nside * nside) \div (NSIDE * NSIDE)
\* hp.npix2nside(len(raw_map)).
npix2nside(n) == CHOOSE s \in SourceNsides : ModelNpix(s) = n

\* hp.ud_grade(raw_map, nside_out) to a coarser resolution: every output
\* pixel is the mean of the input pixels it covers.
ud_grade(raw_map, nside_out) ==
    LET k == Len(raw_map) \div ModelNpix(nside_out)
        RECURSIVE sum(_, _)
        sum(a, b) == IF a > b THEN 0 ELSE raw_map[a] + sum(a + 1, b)
    IN  [p \in 1..ModelNpix(nside_out) |-> sum(k * (p - 1) + 1, k * p) \div k]

\* elif nside_in < config.NSIDE.  The first definition never takes the branch.
BelowRequirementNever(nside_in) == FALSE
BelowRequirement(nside_in) == nside_in < NSIDE

\* load_map(filepath), from the map hp.read_map delivered on.
load_map(raw_map) ==
    LET nside_in == npix2nside(Len(raw_map))
    IN  IF nside_in > NSIDE
        THEN [raised |-> "none", ret |-> ud_grade(raw_map, NSIDE)]
        ELSE IF BelowRequirement(nside_in)
        THEN [raised |-> "ValueError", ret |-> << >>]
        ELSE [raised |-> "none", ret |-> raw_map]

\* Maps a FITS file can hold: one coarse map, the sample fields at NSIDE and
\* finer maps whose four children of a pixel spread around a common mean.
RawMaps ==
    {<<7>>} \cup Fields \cup
    {[k \in 1..ModelNpix(2 * NSIDE) |->
         4 * FieldSeq[f][((k - 1) \div 4) + 1] + d[((k - 1) % 4) + 1]] :
        f \in {1, 2}, d \in {<<0, 0, 0, 0>>, <<3, 0 - 1, 0 - 2, 0>>}}

(***************************************************************************)
(* scripts/run_axis_directions.py : the average of two axes.               *)
(***************************************************************************)
\* if np.dot(axes[2], axes[3]) < 0.  The first definition never flips.
NeedsFlipNever(a, b) == FALSE
NeedsFlip(a, b) == Dot(a, b) < 0

\* axes[3] *= -1 when needed; axis_evil_1 = axes[2] + axes[3];
\* axis_evil_1 /= np.linalg.norm(axis_evil_1).  The norm is kept squared, in
\* units of 1 / UnitScale^2; a zero sum divides to NaNs.
combine_axes(a, b) ==
    LET b3 == IF NeedsFlip(a, b) THEN Neg(b) ELSE b
        sum == <<a[1] + b3[1], a[2] + b3[2], a[3] + b3[3]>>
    IN  [locals |-> [axes3 |-> b3, sum |-> sum, norm2 |-> Norm2(sum)],
         ret |-> IF Norm2(sum) = 0 THEN [dir |-> <<NaN, NaN, NaN>>, n2 |-> 0]
                 ELSE Normalize(sum)]

(***************************************************************************)
(* scripts/run_global_null.py : the forensics block of main.               *)
(***************************************************************************)
\* for l in range(2, 10): the first degree of every adjacent pair.
PairDegrees == 2..9
\* Angles (deg) a pair can show: below the 10 degree mark, or on it.
PairAngleSample == {5, 10}

\* evil_count and the if / elif / else that prints the result.
global_null_forensics(real_angles) ==
    LET evil_count == Cardinality({l \in PairDegrees : real_angles[l] < 10})
    IN  [locals |-> [evil_count |-> evil_count],
         ret |-> IF evil_count = 1 /\ real_angles[2] < 10 THEN "UNIQUE"
                 ELSE IF evil_count > 1 THEN "Multiple pairs are aligned"
                 ELSE "No pairs are strongly aligned"]

(***************************************************************************)
(* validation/shuffling.py : shuffle_catalog_vectors.  Right ascensions    *)
(* and declinations are whole degrees.                                     *)
(***************************************************************************)
\* rng.uniform(0, 360) of the entropy-seeded generator: a value of the
\* half-open interval [0, 360), whose low end can be drawn.
UniformDraws == {0} \cup ShuffleSpinOffsets

\* % 360.  The first definition leaves the sum as it is.
Mod360None(x) == x
Mod360(x) == x % 360

\* shuffle_catalog_vectors(ra, dec, method): the outcomes the generator
\* allows, each with the locals and the returned pair.
shuffle_catalog_vectors(ra, dec, method) ==
    IF method = "spin"
    THEN {[locals |-> [n_objs |-> Len(ra), ra_offset |-> c],
           ret |-> [ra |-> [i \in 1..Len(ra) |-> Mod360(ra[i] + c)], dec |-> dec]] :
             c \in UniformDraws}
    ELSE IF method = "scramble"
    THEN {[locals |-> [n_objs |-> Len(ra), indices |-> pi],
           ret |-> [ra |-> [i \in 1..Len(ra) |-> ra[pi[i]]],
                    dec |-> [i \in 1..Len(ra) |-> dec[pi[i]]]]] :
             pi \in Permutations(1..Len(ra))}
    ELSE {[locals |-> [n_objs |-> Len(ra)], ret |-> [ra |-> ra, dec |-> dec]]}

\* Catalogs of one or two objects, near both ends of the RA range.
ShuffleInputs ==
    {[ra |-> r, dec |-> d, method |-> m] :
        r \in {<<10>>, <<10, 350>>, <<350, 20>>}, d \in {<<0>>, <<0, 45>>, <<45, 45>>},
        m \in {"spin", "scramble", "none"}}

(***************************************************************************)
(* validation/nulling.py : a NullGenerator object and the calls of its     *)
(* generate_nulls, each consumed to its end.                               *)
(***************************************************************************)
\* Calls of generate_nulls made on one object, and the n_sims they pass.
NullCalls == 2
NullCallSizes == 0..2

\* generate_nulls(self, n_sims): the pairs the loop yields, with the
\* rotation of each, and self.rng as the loop leaves it.
generate_nulls(key, original_map, rng, n_sims) ==
    LET step[i \in 0..n_sims] ==
            IF i = 0 THEN [rng |-> rng, out |-> << >>]
            ELSE LET g == GetRandomRotation(key, step[i - 1].rng)
                 IN  [rng |-> g.rng,
                      out |-> Append(step[i - 1].out,
                                     [i |-> i - 1, R |-> g.R,
                                      rotated_map |-> RotateMapPixel(original_map, g.R)])]
    IN  step[n_sims]

(***************************************************************************)
(* engines/parity.py : the directional scan, value by value.               *)
(***************************************************************************)
\* Grid resolutions of the scans (8 and 4 in the drivers).
ScanNsides == {1, 2}
\* The fields scanned: no content below degree 2, a quadrupole, and any of
\* the sample coefficients at m = 0 above it.
ScanFields ==
    {f \in HarmonicFields :
        /\ \A i \in DOMAIN f : (i[1] < 2 \/ i[2] # 0) => f[i] = <<0, 0>>
        /\ f[<<2, 0>>] # <<0, 0>>}

\* The fields handed to the pool of the real scan: a quadrupole and an
\* octupole.
PoolScanFields ==
    {f \in ScanFields :
        /\ f[<<3, 0>>] = <<1, 0>>
        /\ \A i \in DOMAIN f : i[1] > 3 => f[i] = <<0, 0>>}

\* hp.pix2ang(nside, p) in the RING scheme, p from 0: the pixel centre as
\* z = cos(theta), an exact fraction, and phi in degrees, an exact fraction.
pix2ang(nside, p) ==
    LET npix == nside2npix(nside)
        ncap == 2 * nside * (nside - 1)
        cap(q, sign) ==
            \* q-th pixel of a polar cap, counted from the pole's first ring
            LET i == CHOOSE r \in 1..nside : 2 * r * (r - 1) <= q /\ q < 2 * r * (r + 1)
                j == q - 2 * i * (i - 1) + 1
            IN  [z   |-> Frac(sign * (3 * nside * nside - i * i), 3 * nside * nside),
                 phi |-> Frac((2 * j - 1) * 45, i)]
    IN  IF p < ncap THEN cap(p, 1)
        ELSE IF p < npix - ncap
        THEN LET ip == p - ncap
                 i == (ip \div (4 * nside)) + nside
                 j == (ip % (4 * nside)) + 1
                 fodd2 == 1 + ((i + nside) % 2)
             IN  [z   |-> Frac(2 * (2 * nside - i), 3 * nside),
                  phi |-> Frac((2 * j - fodd2) * 45, nside)]
        ELSE \* southern cap: ring r from the south pole holds 4 r pixels
             LET q == npix - 1 - p
                 i == CHOOSE r \in 1..nside : 2 * r * (r - 1) <= q /\ q < 2 * r * (r + 1)
                 j == 4 * i - (q - 2 * i * (i - 1))
             IN  [z   |-> Frac(0 - (3 * nside * nside - i * i), 3 * nside * nside),
                  phi |-> Frac((2 * j - 1) * 45, i)]

\* hp.Rotator(rot=[lon, lat], deg=True, inv=inv).
Rotator(rot, inv) == [rot |-> rot, inv |-> inv]

\* r.rotate_map_pixel(m): a new array, the field resampled in the rotated
\* frame; the argument is left as it is.  The resampled field is kept as the
\* pair of the field and the rotation.
rotate_map_pixel(r, m) == [field |-> m, r |-> r]

\* The default lmax=config.L_MAX of calculate_point_parity, cut at the band
\* limit of the sample fields, which carry nothing above MaxL.
ScanLmax == IF L_MAX < MaxL THEN L_MAX ELSE MaxL

\* calculate_point_parity(rotated_map) of a resampled field: the band-power
\* ratio of the field's harmonic content, which an exact rotation preserves,
\* together with the rotation its resampling error depends on.
rotated_point_parity(rotated_map) ==
    [r |-> rotated_map.r,
     P |-> calculate_point_parity(rotated_map.field, ScanLmax).ret]

\* _worker_scan_single_direction(args), args = (map_data, pix_idx, nside_scan).
scan_single_direction(args) ==
    LET map_data == args[1]
        pix_idx == args[2]
        nside_scan == args[3]
        ang == pix2ang(nside_scan, pix_idx)
        r == Rotator(<<ang.phi, ang.z>>, TRUE)
        rotated_map == rotate_map_pixel(r, map_data)
    IN  [locals |-> [map_data |-> map_data, rotated_map |-> rotated_map],
         ret |-> rotated_point_parity(rotated_map)]

\* scan_parity_directions(map_data, nside_scan): results = np.zeros(npix),
\* then the loop for i in range(npix) filling results[i]; it returns
\* (np.arange(npix), results).  Python index i is position i + 1.
scan_parity_loop(map_data, nside_scan) ==
    LET npix == nside2npix(nside_scan)
        ang(i) == pix2ang(nside_scan, i)
        step(i) ==
            LET r == Rotator(<<ang(i).phi, ang(i).z>>, TRUE)
                rotated_map == rotate_map_pixel(r, map_data)
            IN  rotated_point_parity(rotated_map)
        parity_values == [k \in 1..npix |-> step(k - 1)]
    IN  [locals |-> [map_data |-> map_data, npix |-> npix],
         ret |-> <<[k \in 1..npix |-> k - 1], parity_values>>]

(***************************************************************************)
(* The worker pools of the driver scripts.                                 *)
(***************************************************************************)
\* Pool processes (6, 10 or 11 in the drivers) and ensemble size (200 to
\* 2000 in the drivers) of the pool model.
PoolProcesses == 2
PoolSims == 4
\* maxtasksperchild=None, the default of mp.Pool: false in the worker's
\* test "if maxtasks and ...".
None == 0

PoolSite(script, line, maxtasksperchild, method, func) ==
    [script |-> script, line |-> line, maxtasksperchild |-> maxtasksperchild,
     method |-> method, func |-> func]

\* Every mp.Pool(...) of the driver scripts, with the call made on it.
PoolSites ==
    {PoolSite("run_parity_pipeline", 74, 10, "map", "_worker_scan_single_direction"),
     PoolSite("run_parity_pipeline", 99, 1, "imap", "worker_null_simulation"),
     PoolSite("run_geo_pipeline", 70, 10, "imap", "worker_null_spot"),
     PoolSite("run_phase3_tomography", 86, 10, "map", "_worker_scan_single_direction"),
     PoolSite("run_phase3_tomography", 109, 1, "imap", "worker_null_tomography"),
     PoolSite("run_quasar_pipeline", 95, 10, "imap", "worker_null_catalog"),
     PoolSite("run_variance_pipeline", 129, None, "imap", "worker_variance"),
     PoolSite("run_jackknife", 86, None, "imap", "worker_jackknife"),
     PoolSite("run_harmonics_null", 61, None, "imap", "worker_null_axis"),
     PoolSite("run_axis_validity", 49, None, "imap", "worker_null_alignment"),
     PoolSite("run_mask_ladder", 75, None, "imap", "worker_masked_sim"),
     PoolSite("run_spectrum_check", 72, None, "imap", "worker_sim")}

\* The pool of run_parity_pipeline's real scan.
ScanSite == PoolSite("run_parity_pipeline", 74, 10, "map", "_worker_scan_single_direction")

\* scan_args listing the pixels from the last to the first.
scan_args_reversed(map_data, nside_scan) ==
    [k \in 1..nside2npix(nside_scan) |->
        <<map_data, nside2npix(nside_scan) - k, nside_scan>>]

\* scan_args = [(data_map, i, nside_scan) for i in range(npix)]
scan_args(map_data, nside_scan) ==
    [k \in 1..nside2npix(nside_scan) |-> <<map_data, k - 1, nside_scan>>]

\* Pool.map splits the iterable into chunks of ceil(len / (4 * processes))
\* items, each chunk one task; Pool.imap sends one item per task.
chunksize(site, n) ==
    IF site.method = "imap" THEN 1
    ELSE (n \div (4 * PoolProcesses)) + (IF n % (4 * PoolProcesses) = 0 THEN 0 ELSE 1)
\* The number of tasks of a pool call on n items.
NumTasks(site, n) ==
    LET c == chunksize(site, n) IN (n + c - 1) \div c
\* The positions of the items of task t.
TaskItems(site, n, t) ==
    LET c == chunksize(site, n)
    IN  {k \in 1..n : (t - 1) * c < k /\ k <= t * c}

\* What the pool's function returns on one item.
apply_func(site, item) ==
    IF site = ScanSite THEN scan_single_direction(item).ret
    ELSE <<site.func, item>>

\* A slot of the result list: not yet filled, or holding a value.
NotReady == [ready |-> FALSE]
Ready(value) == [ready |-> TRUE, value |-> value]

\* The pool once its processes have started: PoolProcesses processes with
\* process ids 1..PoolProcesses, each waiting on the task queue, so that the
\* first tasks are taken at once; cur is the task a process is running, 0 if
\* the queue was empty when it asked.  ran[pid] counts the tasks process pid
\* has completed; overtaken records that some task was completed while a
\* task sent earlier was still running.
NewPool(site, n) ==
    [procs |-> [p \in 1..PoolProcesses |->
                   [pid |-> p, cur |-> IF p <= NumTasks(site, n) THEN p ELSE 0]],
     ran |-> [p \in 1..PoolProcesses |-> 0],
     sent |-> IF PoolProcesses <= NumTasks(site, n) THEN PoolProcesses
              ELSE NumTasks(site, n),
     overtaken |-> FALSE,
     cache |-> [k \in 1..n |-> NotReady]]

\* worker(): "if maxtasks and completed >= maxtasks: exit", after which the
\* pool starts a fresh process in its place.
Exhausted(site, completed) ==
    site.maxtasksperchild # None /\ completed >= site.maxtasksperchild

(***************************************************************************)
(* Direct calls of the engine functions: the arguments are drawn at the    *)
(* start, one step evaluates the function.                                 *)
(***************************************************************************)
\* Coefficient arrays for the axis extractors: nothing below degree 2, and
\* from degree 2 up the orders that reach the axis pixels (m = 0, and m = 2
\* for an even, m = 1 for an odd degree).
AxisIdx == {i \in AlmIdx(MaxL) : i[1] >= 2 /\ i[2] \in {0, 2 - (i[1] % 2)}}
AxisFields ==
    {[i \in AlmIdx(MaxL) |-> IF i \in AxisIdx THEN Coef(i, c[i]) ELSE <<0, 0>>] :
        c \in [AxisIdx -> 0..2]}
\* lmax arguments: up to one degree past the band limit of the sample fields.
ParityLmax == 0..(MaxL + 1)

EngineFns == {"calculate_point_parity", "scan_parity_directions",
              "_worker_scan_single_direction", "get_principal_axis",
              "get_quadrupole_axis", "get_separation_vectors",
              "correlate_with_axis", "get_solar_vector",
              "load_map",
              "run_axis_directions",
              "run_global_null",
              "shuffle_catalog_vectors",
              "NullGenerator",
              "scan_parity_directions(map_data, nside_scan)",
              "mp.Pool"} \cup AngleFns

EngineInputs(f) ==
    CASE f = "calculate_point_parity" ->
             {[map_data |-> m, lmax |-> x] : m \in HarmonicFields, x \in ParityLmax}
      [] f = "scan_parity_directions" -> {[kw |-> k] : k \in ScanKeywords}
      [] f = "_worker_scan_single_direction" -> {[args |-> a] : a \in WorkerTuples}
      [] f = "get_principal_axis" ->
             {[alm |-> a, l |-> l] : a \in AxisFields, l \in {2, 3}}
      [] f = "get_quadrupole_axis" -> {[cmb_map_path |-> m] : m \in AxisFields}
      [] f = "get_separation_vectors" -> {[catalog |-> c] : c \in Catalogs}
      [] f = "correlate_with_axis" ->
             {[vectors |-> v, axis_vector |-> a] : v \in VectorLists, a \in AxisSample}
      [] f \in AngleFns -> {[v1 |-> a, v2 |-> b] : a \in UnitVectors, b \in UnitVectors}
      [] f = "get_solar_vector" -> {<< >>}
      [] f = "load_map" -> {[raw_map |-> m] : m \in RawMaps}
      [] f = "run_axis_directions" ->
             {[axes2 |-> a, axes3 |-> b] : a \in UnitVectors, b \in UnitVectors}
      [] f = "run_global_null" ->
             {[real_angles |-> a] : a \in [PairDegrees -> PairAngleSample]}
      [] f = "shuffle_catalog_vectors" -> {a \in ShuffleInputs : Len(a.ra) = Len(a.dec)}
      [] f = "NullGenerator" ->
             {[map_data |-> m, seed |-> s, key |-> k] :
                 m \in {FieldSeq[1], FieldSeq[3]}, s \in {0, 2025}, k \in 0..MaxKey}
      [] f = "scan_parity_directions(map_data, nside_scan)" ->
             {[map_data |-> m, nside_scan |-> n] : m \in ScanFields, n \in ScanNsides}
      [] f = "mp.Pool" ->
             {[site |-> s, iterable |-> SeedList(2025, PoolSims)] :
                 s \in PoolSites \ {ScanSite}}
             \cup {[site |-> ScanSite, iterable |-> scan_args(m, 1)] : m \in PoolScanFields}

\* No driver is running.
DriverIdle ==
    /\ driver = "none"
    /\ pathGiven = FALSE
    /\ PrngKey = 0
    /\ lat_cut = 0
    /\ phase = "START"
    /\ abortCause = "none"
    /\ data_map = ZeroField
    /\ n_obj = 0
    /\ ECLIPTIC_INDICES = NoIndices
    /\ GALACTIC_LATS = NoLats
    /\ real = NaN
    /\ realCall = NoCall
    /\ realField = ZeroField
    /\ seeds = << >>
    /\ task = << >>
    /\ results = << >>
    /\ faults = 0
    /\ oracle = {}
    /\ rotLog = {}
    /\ replay = NoReplay
    /\ pNum = 0
    /\ pDen = 0
    /\ verdict = "none"

EngineInit ==
    /\ DriverIdle
    /\ callee \in EngineFns
    /\ callState = "pending"
    /\ callArgs \in EngineInputs(callee)
    /\ callLocals = << >>
    /\ callRet = << >>

Called(f) == callee = f /\ callState = "pending"
Returns(locals, ret) ==
    /\ callState' = "returned"
    /\ callLocals' = locals
    /\ callRet' = ret
    /\ UNCHANGED <<callee, callArgs, dvars>>

CalculatePointParity ==
    /\ Called("calculate_point_parity")
    /\ LET r == calculate_point_parity(callArgs.map_data, callArgs.lmax)
       IN  Returns(r.locals, r.ret)

ScanParityDirections ==
    /\ Called("scan_parity_directions")
    /\ Returns(<< >>, scan_parity_directions(callArgs.kw))

WorkerScanSingleDirection ==
    /\ Called("_worker_scan_single_direction")
    /\ Returns(<< >>, worker_scan_single_direction(callArgs.args))

GetPrincipalAxis ==
    /\ Called("get_principal_axis")
    /\ \E r \in get_principal_axis(callArgs.alm, callArgs.l) :
          Returns(r.locals, r.ret)

GetQuadrupoleAxis ==
    /\ Called("get_quadrupole_axis")
    /\ LET r == get_quadrupole_axis(callArgs.cmb_map_path)
       IN  Returns(r.locals, r.ret)

AxisAngle ==
    /\ callee \in AngleFns
    /\ callState = "pending"
    /\ Returns(<< >>, AngleOf(callee, callArgs.v1, callArgs.v2))

GetSeparationVectors ==
    /\ Called("get_separation_vectors")
    /\ Returns([n_obj |-> NumObjects(callArgs.catalog)],
               get_separation_vectors(callArgs.catalog))

CorrelateWithAxis ==
    /\ Called("correlate_with_axis")
    /\ Returns(<< >>, correlate_with_axis(callArgs.vectors, callArgs.axis_vector))

GetSolarVector ==
    /\ Called("get_solar_vector")
    /\ Returns(<< >>, get_solar_vector)

LoadMap ==
    /\ Called("load_map")
    /\ LET r == load_map(callArgs.raw_map)
       IN  Returns([nside_in |-> npix2nside(Len(callArgs.raw_map))], r)

CombineAxes ==
    /\ Called("run_axis_directions")
    /\ LET r == combine_axes(callArgs.axes2, callArgs.axes3)
       IN  Returns(r.locals, r.ret)

GlobalNullForensics ==
    /\ Called("run_global_null")
    /\ LET r == global_null_forensics(callArgs.real_angles)
       IN  Returns(r.locals, r.ret)

ShuffleCatalogVectors ==
    /\ Called("shuffle_catalog_vectors")
    /\ \E r \in shuffle_catalog_vectors(callArgs.ra, callArgs.dec, callArgs.method) :
          Returns(r.locals, r.ret)

\* NullGenerator.__init__(map_data, seed).
NullGeneratorInit ==
    /\ Called("NullGenerator")
    /\ callState' = "constructed"
    /\ callLocals' = [original_map |-> callArgs.map_data,
                      rng |-> default_rng(callArgs.seed)]
    /\ UNCHANGED <<callee, callArgs, callRet, dvars>>

\* list(gen.generate_nulls(n_sims=n)) on the constructed object; callRet
\* collects what each call yielded.
GenerateNulls ==
    /\ callee = "NullGenerator"
    /\ callState = "constructed"
    /\ Len(callRet) < NullCalls
    /\ \E n \in NullCallSizes :
          LET r == generate_nulls(callArgs.key, callLocals.original_map,
                                  callLocals.rng, n)
          IN  /\ callRet' = Append(callRet, [n_sims |-> n, out |-> r.out])
              /\ callLocals' = [callLocals EXCEPT !.rng = r.rng]
    /\ UNCHANGED <<callee, callState, callArgs, dvars>>

\* A call scan_parity_directions(map_data, nside_scan=n) run to its return.
ScanParityLoop ==
    /\ Called("scan_parity_directions(map_data, nside_scan)")
    /\ LET r == scan_parity_loop(callArgs.map_data, callArgs.nside_scan)
       IN  Returns(r.locals, r.ret)

\* with mp.Pool(...) as pool: pool.map(func, iterable) / pool.imap(...)
PoolCreate ==
    /\ Called("mp.Pool")
    /\ callState' = "constructed"
    /\ callLocals' = NewPool(callArgs.site, Len(callArgs.iterable))
    /\ UNCHANGED <<callee, callArgs, callRet, dvars>>

\* A pool process completes its task: the results go to their slots of the
\* result list, and a process that has reached maxtasksperchild exits and is
\* replaced by a fresh one.  The process, or its replacement, then takes the
\* next task of the queue.
PoolFinish(p) ==
    /\ callee = "mp.Pool"
    /\ callState = "constructed"
    /\ callLocals.procs[p].cur # 0
    /\ LET site == callArgs.site
           n == Len(callArgs.iterable)
           t == callLocals.procs[p].cur
           pid == callLocals.procs[p].pid
           completed == callLocals.ran[pid] + 1
           ran1 == [callLocals.ran EXCEPT ![pid] = completed]
           filled == [k \in 1..n |->
                         IF k \in TaskItems(site, n, t)
                         THEN Ready(apply_func(site, callArgs.iterable[k]))
                         ELSE callLocals.cache[k]]
           more == callLocals.sent < NumTasks(site, n)
           next == IF more THEN callLocals.sent + 1 ELSE 0
           late == \/ callLocals.overtaken
                   \/ \E q \in 1..PoolProcesses :
                         callLocals.procs[q].cur # 0 /\ callLocals.procs[q].cur < t
       IN  callLocals' =
               IF Exhausted(site, completed)
               THEN [callLocals EXCEPT
                        !.procs[p] = [pid |-> Len(ran1) + 1, cur |-> next],
                        !.ran = Append(ran1, 0),
                        !.sent = IF more THEN next ELSE @,
                        !.overtaken = late,
                        !.cache = filled]
               ELSE [callLocals EXCEPT
                        !.procs[p].cur = next, !.ran = ran1,
                        !.sent = IF more THEN next ELSE @,
                        !.overtaken = late, !.cache = filled]
    /\ UNCHANGED <<callee, callState, callArgs, callRet, dvars>>

\* pool.map(...) / list(pool.imap(...)) returns the result list, in the
\* order of the iterable, once every slot is filled.
PoolReturn ==
    /\ callee = "mp.Pool"
    /\ callState = "constructed"
    /\ \A k \in DOMAIN callLocals.cache : callLocals.cache[k].ready
    /\ callState' = "returned"
    /\ callRet' = [k \in DOMAIN callLocals.cache |-> callLocals.cache[k].value]
    /\ UNCHANGED <<callee, callArgs, callLocals, dvars>>

EngineNext ==
    \/ CalculatePointParity
    \/ ScanParityDirections
    \/ WorkerScanSingleDirection
    \/ GetPrincipalAxis
    \/ GetQuadrupoleAxis
    \/ AxisAngle
    \/ GetSeparationVectors
    \/ CorrelateWithAxis
    \/ GetSolarVector
    \/ LoadMap
    \/ CombineAxes
    \/ GlobalNullForensics
    \/ ShuffleCatalogVectors
    \/ NullGeneratorInit
    \/ GenerateNulls
    \/ ScanParityLoop
    \/ PoolCreate
    \/ \E p \in 1..PoolProcesses : PoolFinish(p)
    \/ PoolReturn

EngineSpec == EngineInit /\ [][EngineNext]_vars

(***************************************************************************)
(* Properties of the engines.                                              *)
(***************************************************************************)
Returned(f) == callee = f /\ callState = "returned"

RECURSIVE SumFnOver(_, _)
SumFnOver(g, S) ==
    IF S = {} THEN 0
    ELSE LET x == CHOOSE y \in S : TRUE
         IN  g[x] + SumFnOver(g, S \ {x})
Sigma(g) == SumFnOver(g, DOMAIN g)

\* The coefficient of a field at (l, m), zero outside its band limit.
CoefAt(f, l, m) == IF <<l, m>> \in DOMAIN f THEN f[<<l, m>>] ELSE <<0, 0>>
\* |a_l0|^2 + 2 * sum over m > 0 of |a_lm|^2.
PowerAt(f, l) ==
    LET sq(c) == c[1] * c[1] + c[2] * c[2]
    IN  sq(CoefAt(f, l, 0)) + 2 * Sigma([m \in 1..l |-> sq(CoefAt(f, l, m))])
\* The power of the degrees 2..lmax of parity r (0 even, 1 odd), plain and
\* weighted by l (l + 1).
BandPower(f, lmax, r) ==
    Sigma([l \in 2..lmax |-> IF l % 2 = r THEN PowerAt(f, l) ELSE 0])
WeightedBandPower(f, lmax, r) ==
    Sigma([l \in 2..lmax |-> IF l % 2 = r THEN l * (l + 1) * PowerAt(f, l) ELSE 0])

\* C11: calculate_point_parity(field, lmax) is (P+ - P-) / (P+ + P-), with
\* P+ the l(l+1)/2pi-weighted power of the even degrees from 2 to lmax and
\* P- that of the odd degrees, every degree power counting m = 0 once and
\* m > 0 twice; when P+ + P- is zero it returns exactly 0.0.
C11_ParityIsWeightedRatio ==
    Returned("calculate_point_parity") =>
        LET Pp == WeightedBandPower(callArgs.map_data, callArgs.lmax, 0)
            Pm == WeightedBandPower(callArgs.map_data, callArgs.lmax, 1)
        IN  IF Pp + Pm = 0
            THEN callRet = [num |-> 0, den |-> 1]
            ELSE /\ callRet.den > 0
                 /\ callRet.num * (Pp + Pm) = (Pp - Pm) * callRet.den

\* A call on a field with even and odd power, some of it at m > 0.
C11_Witness ==
    /\ Returned("calculate_point_parity")
    /\ callLocals.P_plus > 0
    /\ callLocals.P_minus > 0
    /\ callArgs.map_data[<<3, 1>>] # <<0, 0>>
    /\ callRet.num # 0

\* C12: the parity statistic lies in [-1, +1]; it is +1 when all band power
\* is at even degrees, -1 when all is at odd degrees, strictly between when
\* an even and an odd degree both carry power, and non-zero for equal
\* coefficients at l = 2 and l = 3.
C12_ParityRange ==
    Returned("calculate_point_parity") =>
        LET f == callArgs.map_data
            even == BandPower(f, callArgs.lmax, 0)
            odd == BandPower(f, callArgs.lmax, 1)
            equal23 == /\ callArgs.lmax >= 3
                       /\ CoefAt(f, 2, 0) # <<0, 0>>
                       /\ \A m \in 0..3 : CoefAt(f, 3, m) = CoefAt(f, 2, m)
                       /\ \A l \in 4..callArgs.lmax : PowerAt(f, l) = 0
        IN  /\ callRet.den > 0
            /\ 0 - callRet.den <= callRet.num /\ callRet.num <= callRet.den
            /\ (even > 0 /\ odd = 0) => callRet = [num |-> 1, den |-> 1]
            /\ (even = 0 /\ odd > 0) => callRet = [num |-> 0 - 1, den |-> 1]
            /\ (even > 0 /\ odd > 0) =>
                   0 - callRet.den < callRet.num /\ callRet.num < callRet.den
            /\ equal23 => callRet.num # 0

\* The same coefficient at (2, 0) and (3, 0) and nothing else: -1/3.
C12_Witness ==
    /\ Returned("calculate_point_parity")
    /\ callArgs.lmax = 3
    /\ \A i \in DOMAIN callArgs.map_data :
          callArgs.map_data[i] = (IF i \in {<<2, 0>>, <<3, 0>>} THEN <<1, 0>> ELSE <<0, 0>>)
    /\ callRet = [num |-> 0 - 1, den |-> 3]

\* C13: the parity statistic does not depend on the degree-0 and degree-1
\* content of the field: low-order removal comes before the transform, so
\* the transformed coefficients carry nothing below degree 2, and the
\* accumulation into P+ and P- starts at degree 2.
C13_LowDegreesIgnored ==
    Returned("calculate_point_parity") =>
        LET f == callArgs.map_data
            lmax == callArgs.lmax
            low == {i \in DOMAIN f : i[1] < 2}
        IN  /\ \A k \in [low -> 0..1] :
                  LET g == [i \in DOMAIN f |-> IF i \in low THEN Coef(i, k[i]) ELSE f[i]]
                  IN  calculate_point_parity(g, lmax).ret = callRet
            /\ \A i \in DOMAIN callLocals.alm :
                  i[1] < 2 => callLocals.alm[i] = <<0, 0>>
            /\ callLocals.alm = map2alm(callLocals.map_cleaned, lmax)
            /\ get_parity_modes(map2alm(f, lmax), lmax) =
                   [P_plus |-> callLocals.P_plus, P_minus |-> callLocals.P_minus]

\* A pure even field with a monopole and a dipole of amplitude 100: +1.
C13_Witness ==
    /\ Returned("calculate_point_parity")
    /\ callArgs.lmax = 3
    /\ callArgs.map_data[<<1, 0>>] = <<DipoleAmp, 0>>
    /\ callArgs.map_data[<<1, 1>>] = <<DipoleAmp, 0>>
    /\ callArgs.map_data[<<2, 0>>] = <<1, 0>>
    /\ callRet = [num |-> 1, den |-> 1]

\* C14: the directional scan accepts a band [lmin, lmax] and evaluates, in
\* every direction, the parity statistic of the degrees max(lmin, 2)..lmax,
\* as run_phase3_tomography asks of it in its real scan and in its workers.
C14_ScanHonoursBand ==
    /\ (Returned("scan_parity_directions") /\ "lmin" \in DOMAIN callArgs.kw) =>
           /\ callRet.raised = "none"
           /\ callRet.lmin = (IF callArgs.kw.lmin > 2 THEN callArgs.kw.lmin ELSE 2)
           /\ callRet.lmax = callArgs.kw.lmax
    /\ (Returned("_worker_scan_single_direction") /\ Len(callArgs.args) = 5) =>
           /\ callRet.raised = "none"
           /\ callRet.lmin = (IF callArgs.args[4] > 2 THEN callArgs.args[4] ELSE 2)
           /\ callRet.lmax = callArgs.args[5]

C16_ExtractorOutputVaries ==
    /\ Returned("get_principal_axis") =>
           \E a \in AxisFields : callRet.axis \notin PrincipalAxes(a, callArgs.l)
    /\ Returned("get_quadrupole_axis") =>
           \E m \in AxisFields : get_quadrupole_axis(m).ret # callRet

\* C17: every angle between two axes is arccos(|v1 . v2|): it lies between
\* 0 and 90 degrees and is unchanged when either vector is negated.
C17_AnglesAreHeadless ==
    (callee \in AngleFns /\ callState = "returned") =>
        /\ callRet = ArcCosDeg(Abs(Dot(callArgs.v1, callArgs.v2)))
        /\ 0 <= callRet /\ callRet <= 9000
        /\ AngleOf(callee, Neg(callArgs.v1), callArgs.v2) = callRet
        /\ AngleOf(callee, callArgs.v1, Neg(callArgs.v2)) = callRet

\* Positions of a catalog and the number of its objects at each.
PositionsOf(cat) == {ToCartesian(cat[b].obj) : b \in DOMAIN cat}
CountAt(cat, x) ==
    Sigma([b \in DOMAIN cat |-> IF ToCartesian(cat[b].obj) = x THEN cat[b].count ELSE 0])
\* Unordered pairs of objects at different positions.
DifferingPairs(cat) ==
    LET n == Sigma([b \in DOMAIN cat |-> cat[b].count])
        same == SumFnOver([x \in PositionsOf(cat) |-> CountAt(cat, x) * (CountAt(cat, x) - 1)],
                          PositionsOf(cat))
    IN  (n * (n - 1) - same) \div 2

\* C18: get_separation_vectors fails and returns no vectors whenever the
\* catalog has more than 2000 objects, and for a catalog of at most 2000
\* objects every pair of objects is processed: no truncation, no subsampling.
C18_CapacityLimit ==
    Returned("get_separation_vectors") =>
        LET n == Sigma([b \in DOMAIN callArgs.catalog |-> callArgs.catalog[b].count])
        IN  IF n > 2000
            THEN callRet.raised = "ValueError" /\ DOMAIN callRet.rows = {}
            ELSE /\ callRet.raised = "none"
                 /\ Sigma(callRet.rows) = DifferingPairs(callArgs.catalog)

\* A catalog of 2001 objects was refused.
C18_Witness ==
    /\ Returned("get_separation_vectors")
    /\ callLocals.n_obj = 2001
    /\ callRet.raised = "ValueError"

\* The catalog of blocks of one or two objects written out object by object.
RECURSIVE Expand(_)
Expand(cat) ==
    IF cat = << >> THEN << >>
    ELSE LET xyz == ToCartesian(Head(cat).obj)
         IN  (IF Head(cat).count = 1 THEN <<xyz>> ELSE <<xyz, xyz>>) \o Expand(Tail(cat))
\* The row u is the unit vector along the integer vector v.
IsUnitVectorOf(u, v) ==
    /\ u.n2 = u.dir[1] * u.dir[1] + u.dir[2] * u.dir[2] + u.dir[3] * u.dir[3]
    /\ LET k == GCD(GCD(Abs(v[1]), Abs(v[2])), Abs(v[3]))
       IN  k > 0 /\ \A c \in 1..3 : v[c] = k * u.dir[c]

C20_MeanAbsCosine ==
    Returned("correlate_with_axis") =>
        LET vs == callArgs.vectors
            ax == callArgs.axis_vector
            total == Sigma([k \in DOMAIN vs |-> Abs(Dot(vs[k], ax))])
        IN  /\ callRet.den > 0
            /\ callRet.num * 25 * Len(vs) = total * callRet.den
            /\ 0 <= callRet.num /\ callRet.num <= callRet.den
            /\ (\A k \in DOMAIN vs : vs[k] \in {ax, Neg(ax)}) =>
                   callRet = [num |-> 1, den |-> 1]
            /\ correlate_with_axis(vs, Neg(ax)) = callRet
            /\ \A k \in DOMAIN vs :
                   correlate_with_axis([vs EXCEPT ![k] = Neg(vs[k])], ax) = callRet

\* C21: get_solar_vector() returns [cos(dec) cos(ra), cos(dec) sin(ra),
\* sin(dec)] for SOLAR_NORTH_POLE_RA_DEG and SOLAR_NORTH_POLE_DEC_DEG: a unit
\* vector whose angle to the North Ecliptic Pole vector lies strictly between
\* 6.75 and 7.75 degrees, that is, whose dot product with it lies between
\* cos(7.75 deg) and cos(6.75 deg).
C21_SolarVectorIsSolarPole ==
    Returned("get_solar_vector") =>
        LET v == CartesianE4(callRet)
            e == CartesianE4(get_ecliptic_vector)
        IN  /\ callRet = UnitVectorAt(SOLAR_NORTH_POLE_RA_MDEG, SOLAR_NORTH_POLE_DEC_MDEG)
            /\ Abs(Dot(v, v) - 100000000) <= 100000
            /\ 99086590 < Dot(v, e) /\ Dot(v, e) < 99306846

\* C22: load_map returns a field at exactly the resolution NSIDE or fails: a
\* source of higher resolution is downgraded to NSIDE (every pixel the mean
\* of the source pixels it covers), a source at NSIDE is returned unchanged,
\* and a source of lower resolution raises an error and returns no field.
C22_LoadMapResolution ==
    Returned("load_map") =>
        LET raw == callArgs.raw_map
            n == Len(raw) \div NPix
        IN  /\ callRet.raised = "none" => Len(callRet.ret) = ModelNpix(NSIDE)
            /\ Len(raw) > NPix =>
                 /\ callRet.raised = "none"
                 /\ \A p \in Pix :
                       n * callRet.ret[p] =
                           Sigma([k \in 1..n |-> raw[n * (p - 1) + k]])
            /\ Len(raw) = NPix => callRet.raised = "none" /\ callRet.ret = raw
            /\ Len(raw) < NPix => callRet.raised # "none" /\ callRet.ret = << >>

\* A source below NSIDE was refused.
C22_Witness ==
    /\ Returned("load_map")
    /\ callLocals.nside_in < NSIDE
    /\ callRet.raised = "ValueError"

\* The axes combine_axes(sa * a, sb * b) returns for the four sign choices.
SignVariants(a, b) ==
    {combine_axes(IF sa = 1 THEN a ELSE Neg(a), IF sb = 1 THEN b ELSE Neg(b)).ret :
        sa \in {1, 0 - 1}, sb \in {1, 0 - 1}}
SameAxis(u, v) == u.n2 = v.n2 /\ (u.dir = v.dir \/ u.dir = Neg(v.dir))

\* C27 as stated: after sign alignment the sum of the two axes has norm at
\* least sqrt(2), so normalising never divides by zero, and the combined axis
\* is the same headless axis whichever sign each input axis carries.
C27_AsStated ==
    Returned("run_axis_directions") =>
        /\ callLocals.norm2 >= 2 * UnitScale * UnitScale
        /\ \A v \in SignVariants(callArgs.axes2, callArgs.axes3) : SameAxis(v, callRet)

\* C27 amended: the norm of the sum is at least sqrt(2) in every case, and
\* the combined axis is the same headless axis whichever sign each input
\* axis carries when the two axes are not perpendicular.
C27_CombinedAxisHeadless ==
    Returned("run_axis_directions") =>
        /\ callLocals.norm2 >= 2 * UnitScale * UnitScale
        /\ callRet.n2 > 0
        /\ Dot(callArgs.axes2, callArgs.axes3) # 0 =>
              \A v \in SignVariants(callArgs.axes2, callArgs.axes3) : SameAxis(v, callRet)

\* Two axes at an obtuse angle: the second one was negated.
C27_Witness ==
    /\ Returned("run_axis_directions")
    /\ Dot(callArgs.axes2, callArgs.axes3) < 0
    /\ callLocals.axes3 = Neg(callArgs.axes3)
    /\ callArgs.axes3 # Neg(callArgs.axes2)

\* C28: in run_global_null, over the pairs (l, l+1) for l = 2..9, the verdict
\* 'No pairs are strongly aligned' is printed only when no pair has an angle
\* below 10 degrees, 'UNIQUE' only when pair (2, 3) is the single pair below
\* 10 degrees, and 'Multiple pairs are aligned' exactly when two or more
\* pairs are below 10 degrees.
C28_GlobalNullVerdict ==
    Returned("run_global_null") =>
        LET evil == {l \in PairDegrees : callArgs.real_angles[l] < 10}
        IN  /\ callRet = "No pairs are strongly aligned" => evil = {}
            /\ callRet = "UNIQUE" => evil = {2}
            /\ callRet = "Multiple pairs are aligned" <=> Cardinality(evil) >= 2

C26_NullsRestartPerSeed ==
    callee = "NullGenerator" =>
        \A k \in 1..Len(callRet) :
            LET c == callRet[k]
                fresh == generate_nulls(callArgs.key, callArgs.map_data,
                                        default_rng(callArgs.seed), c.n_sims)
            IN  /\ Len(c.out) = c.n_sims
                /\ \A j \in 1..Len(c.out) : c.out[j].i = j - 1
                /\ \A j \in 1..Len(c.out) :
                      /\ c.out[j].R = fresh.out[j].R
                      /\ c.out[j].rotated_map = fresh.out[j].rotated_map

\* C29: a "signal" verdict (p < 0.05) is printed only when the observed
\* statistic is a defined number; with an undefined (NaN) observed statistic
\* the driver does not report a significant signal.
C29_SignalOnlyForDefinedStatistic ==
    (phase = "REPORTED" /\ verdict = "signal") => real # NaN

\* A step taken once the pool exists leaves the module globals of main as
\* they are.
GlobalsKeptWhilePoolExists ==
    phase \in {"NULLS_RUNNING", "NULLS_COMPLETE", "REPORTED"} =>
        /\ ECLIPTIC_INDICES' = ECLIPTIC_INDICES
        /\ GALACTIC_LATS' = GALACTIC_LATS

\* C30: in run_variance_pipeline and run_jackknife every worker invocation
\* reads the module globals ECLIPTIC_INDICES (and GALACTIC_LATS) with exactly
\* the value main assigned before the pool was created: no worker observes
\* None, all workers of one run observe the same value, and nothing writes
\* the globals once the pool exists.
C30_WorkersReadMainGlobals ==
    /\ [](UsesBelt(driver) =>
            \A i \in Tasks :
               /\ task[i].glob = Globals(ECLIPTIC_INDICES, GALACTIC_LATS)
               /\ task[i].glob.ECLIPTIC_INDICES.set
               /\ task[i].glob.ECLIPTIC_INDICES.idx = PrecomputeEclipticIndices
               /\ driver = "run_jackknife" =>
                     /\ task[i].glob.GALACTIC_LATS.set
                     /\ DOMAIN task[i].glob.GALACTIC_LATS.lat
                            = task[i].glob.ECLIPTIC_INDICES.idx
               /\ \A j \in Tasks : task[j].glob = task[i].glob)
    /\ [][GlobalsKeptWhilePoolExists]_vars

\* Two workers of run_jackknife have returned, both having read the belt
\* and the latitudes main precomputed.
C30_Witness ==
    /\ driver = "run_jackknife"
    /\ phase = "NULLS_RUNNING"
    /\ Cardinality(DoneTasks) >= 2
    /\ \A i \in DoneTasks :
          /\ task[i].glob.ECLIPTIC_INDICES.set
          /\ task[i].glob.GALACTIC_LATS.set
          /\ task[i].glob.ECLIPTIC_INDICES.idx # {}

\* C23: every worker pool used for a null ensemble or a directional scan is
\* created with a finite tasks-per-worker bound, and no worker process
\* executes more than that bound of tasks before it is replaced by a fresh
\* process.
C23_PoolsRecycleWorkers ==
    (callee = "mp.Pool" /\ callState # "pending") =>
        /\ callArgs.site.maxtasksperchild # None
        /\ \A pid \in DOMAIN callLocals.ran :
              callLocals.ran[pid] <= callArgs.site.maxtasksperchild

\* C25: for every field and grid resolution scan_parity_directions returns
\* one value per grid pixel (12 * nside_scan^2 values, indices 0..npix-1 in
\* order), its i-th value is what _worker_scan_single_direction returns for
\* (field, i, nside_scan), and the pool of per-pixel workers of
\* run_parity_pipeline fills the same array whatever the order in which the
\* workers run; the input field is not modified.
C25_ScanEqualsPoolOfWorkers ==
    /\ Returned("scan_parity_directions(map_data, nside_scan)") =>
          LET npix == 12 * callArgs.nside_scan * callArgs.nside_scan
          IN  /\ callRet[1] = [k \in 1..npix |-> k - 1]
              /\ DOMAIN callRet[2] = 1..npix
              /\ \A k \in 1..npix :
                    callRet[2][k] =
                        scan_single_direction(
                            <<callArgs.map_data, k - 1, callArgs.nside_scan>>).ret
              /\ callLocals.map_data = callArgs.map_data
    /\ (callee = "mp.Pool" /\ callState # "pending" /\ callArgs.site = ScanSite) =>
          LET map_data == callArgs.iterable[1][1]
              nside_scan == callArgs.iterable[1][3]
              sequential == scan_parity_loop(map_data, nside_scan).ret[2]
          IN  /\ DOMAIN callLocals.cache = DOMAIN sequential
              /\ \A k \in DOMAIN callLocals.cache :
                    callLocals.cache[k].ready =>
                        callLocals.cache[k].value = sequential[k]
              /\ callState = "returned" => callRet = sequential
              /\ \A k \in DOMAIN callArgs.iterable :
                    scan_single_direction(callArgs.iterable[k]).locals.map_data
                        = map_data

\* The pool of run_parity_pipeline's scan has returned its twelve values
\* after some worker finished a later task before an earlier one.
C25_Witness ==
    /\ callee = "mp.Pool"
    /\ callArgs.site = ScanSite
    /\ callState = "returned"
    /\ callLocals.overtaken
    /\ Len(callRet) = 12
    /\ \E j, k \in DOMAIN callRet : callRet[j] # callRet[k]

====
